---- MODULE Spec2Model ----
(***************************************************************************)
(* Verification model of ansys-micromechanics (package ansysmicro):        *)
(*   LoadingHandler  - loading input -> strain* tensors -> displacement    *)
(*                     constraints on the retained nodes                   *)
(*   PBCHandler      - pairing of nodes on opposite faces of the RVE       *)
(*   ResultsHandler  - macroscopic tensors, effective properties, report   *)
(*                                                                         *)
(* Numbers.  A Python/numpy float is modelled as an exact extended         *)
(* rational <<n, d>>: d > 0 and gcd(n, d) = 1 for a finite value,          *)
(* <<1, 0>> and <<-1, 0>> for +inf and -inf, <<0, 0>> for NaN.  Zero is    *)
(* unsigned (x / 0 takes the sign of x).  Python's None in a numeric slot   *)
(* is Null, a pair no arithmetic produces; an omitted argument is None.    *)
(* Python indices are 0-based; At(t, i, j) reads t[i][j].                  *)
(***************************************************************************)
EXTENDS Integers, Sequences, FiniteSets, TLC

VARIABLES
    \* ---- LoadingHandler / TestCaseSkeleton.loading
    loading,         \* test_case.loading (attribute bag)
    lengths,         \* LoadingHandler.lengths (domain edge lengths)
    prepared,        \* result of the static prepare_loading_tensors(loading, lengths)
    lh,              \* LoadingHandler instance: construction status and .tensors
    ansys_log,       \* commands apply_strain_tensor issued in its last call
    applied,         \* the tensor handed to the last apply_strain_tensor call
    disp_bc,         \* displacement constraints active in the solver
    converted,       \* last direct call of convert_direction_to_strain_tensor
    retained_nodes,  \* TestRunner.retained_nodes [N0, N1, N2, N3]
    pc_load,
    \* ---- PBCHandler
    mesh,            \* ansys.mesh: node number -> <<x, y, z>> (fixed-point units)
    pair_sets,       \* result of find_node_pairs
    ce_log,          \* constraint equations apply_periodic_conditions emitted
    pc_pbc,
    \* ---- ResultsHandler / TestRunner.run_test_sequence
    n_cases,             \* test_case.num_load_cases of the run
    volume,              \* ansys.mesh.grid.volume
    expectedProperties,  \* test_case.loading.expectedProperties
    labels,              \* test_case.loading.labels (None when absent)
    load_case,           \* loop variable of run_test_sequence
    retained_results,    \* ResultsHandler.retained_results
    results,             \* ResultsHandler.results, keyed by load case 1..n
    debug_results,       \* ResultsHandler.debug_results, keyed by load case
    reportedProperties,  \* the frame collect_expected_properties returns
    pc_res,
    \* ---- ResultsHandler.collect_expected_properties called on its own
    call_args,           \* the arguments of the call
    call_result,         \* the frame it returns, or the exception it raises
    pc_rep,
    \* ---- TestCaseSkeleton driven by main()
    mesh_files_found,    \* whether every given mesh file path exists
    materials,           \* test_case.materials
    check_result,        \* what check_parameters returned or raised
    finished_with,       \* the table run_tests logs before compressing it
    compress_ret,        \* return value of compress_results
    pc_case,
    \* ---- TestRunner.run_test_sequence
    history,             \* every solver command of the sequence, in order
    solved,              \* per solve: the load case and the constraints then active
    pc_run,
    \* ---- RecursiveClassFactory.create_class: one created class
    required_args,       \* the required_args the class was created with
    arg_filled,          \* the closure's list of flags
    kwargs,              \* keyword names of the last constructor call
    raised,              \* what the last constructor call raised
    attrs,               \* attributes set on the instance of the last call
    calls,                \* constructor calls made so far
    \* ---- TestRunner.run inside AnsysContainer
    session_cases,       \* test_case.num_load_cases of the session
    instance,            \* the Ansys instance: "none", "running", "exited"
    session_log,         \* launch, solver commands and exit, in order
    session_case,        \* loop variable of the session's test sequence
    error,               \* the step whose exception is propagating, or "none"
    pc_ses,
    \* ---- utils.definitely_delete_file: one call
    missing_ok,          \* argument
    max_wait,            \* argument
    warn_on_fail,        \* argument
    return_waited,       \* argument
    present,             \* whether the file existed when unlink was called
    checks,              \* what each path.exists() returned, in order
    waited,              \* seconds slept so far
    deleted,             \* the local flag
    del_result,          \* the value returned or the exception raised
    pc_del,
    \* ---- the results file during run_test_sequence
    rst_exists,          \* whether a file is at rst_path
    rst_sets,            \* its result sets: the load case whose solve wrote each
    rst_cases,           \* test_case.num_load_cases
    rst_case,            \* loop variable load_case
    extractions,         \* per extraction: sets in the file and the sets read
    pc_rst

loadVars == <<loading, lengths, prepared, lh, ansys_log, applied, disp_bc,
              converted, retained_nodes, pc_load>>

pbcVars == <<mesh, pair_sets, ce_log, pc_pbc>>

resVars == <<n_cases, volume, expectedProperties, labels, load_case,
             retained_results, results, debug_results, reportedProperties, pc_res>>

repVars == <<call_args, call_result, pc_rep>>

caseVars == <<mesh_files_found, materials, check_result, finished_with,
              compress_ret, pc_case>>

runVars == <<history, solved, pc_run>>

facVars == <<required_args, arg_filled, kwargs, raised, attrs, calls>>

sesVars == <<session_cases, instance, session_log, session_case, error, pc_ses>>

delVars == <<missing_ok, max_wait, warn_on_fail, return_waited, present, checks, waited, deleted, del_result, pc_del>>

rstVars == <<rst_exists, rst_sets, rst_cases, rst_case, extractions, pc_rst>>

vars == <<loadVars, pbcVars, resVars, repVars, caseVars, runVars,
         facVars,
         sesVars,
         delVars,
         rstVars>>

\* What each component leaves alone
notLoadVars == <<pbcVars, resVars, repVars, caseVars, runVars,
    facVars,
    sesVars,
    delVars,
    rstVars>>
notPbcVars == <<loadVars, resVars, repVars, caseVars, runVars,
    facVars,
    sesVars,
    delVars,
    rstVars>>
notResVars == <<loadVars, pbcVars, repVars, caseVars, runVars,
    facVars,
    sesVars,
    delVars,
    rstVars>>
notRepVars == <<loadVars, pbcVars, resVars, caseVars, runVars,
    facVars,
    sesVars,
    delVars,
    rstVars>>
notCaseVars == <<loadVars, pbcVars, repVars, runVars,
    facVars,
    sesVars,
    delVars,
    rstVars>>
notRunVars == <<pbcVars, repVars, caseVars,
    facVars,
    sesVars,
    delVars,
    rstVars>>
notFacVars == <<loadVars, pbcVars, resVars, repVars, caseVars, runVars,
    sesVars,
    delVars,
    rstVars>>
notSesVars == <<loadVars, pbcVars, resVars, repVars, caseVars, runVars, facVars,
    delVars,
    rstVars>>
notDelVars == <<loadVars, pbcVars, resVars, repVars, caseVars, runVars, facVars, sesVars,
    rstVars>>
notRstVars == <<loadVars, pbcVars, resVars, repVars, caseVars, runVars, facVars, sesVars, delVars>>

-----------------------------------------------------------------------------
(* Extended rational arithmetic (numpy float64 semantics, exact values).   *)

Null == <<0, -1>>
None == <<>>

Abs(x) == IF x < 0 THEN -x ELSE x
Sgn(x) == IF x < 0 THEN -1 ELSE IF x > 0 THEN 1 ELSE 0

RECURSIVE GCD(_, _)
GCD(a, b) == IF b = 0 THEN a ELSE GCD(b, a % b)

Norm(n, d) ==
    IF d = 0 THEN <<Sgn(n), 0>>
    ELSE LET g == GCD(Abs(n), Abs(d))
             s == IF d < 0 THEN -1 ELSE 1
         IN  <<(s * n) \div g, (s * d) \div g>>

R(n) == <<n, 1>>
Zero == <<0, 1>>
NaN == <<0, 0>>
IsFinite(x) == x[2] # 0
IsNaN(x) == x = NaN

FNeg(x) == <<-x[1], x[2]>>
FMul(x, y) == Norm(x[1] * y[1], x[2] * y[2])
\* 1.0 / y
FRecip(y) ==
    IF y[2] = 0 THEN (IF y[1] = 0 THEN NaN ELSE Zero)
    ELSE IF y[1] = 0 THEN <<1, 0>>
    ELSE <<Sgn(y[1]) * y[2], Abs(y[1])>>
FDivGuarded(x, y) == IF y[1] = 0 /\ y[2] # 0 THEN Zero ELSE FMul(x, FRecip(y))
FDiv(x, y) == FMul(x, FRecip(y))
FAdd(x, y) ==
    IF IsFinite(x) /\ IsFinite(y) THEN Norm(x[1] * y[2] + y[1] * x[2], x[2] * y[2])
    ELSE IF IsNaN(x) \/ IsNaN(y) THEN NaN
    ELSE IF ~IsFinite(x) /\ ~IsFinite(y) THEN (IF x = y THEN x ELSE NaN)
    ELSE IF ~IsFinite(x) THEN x ELSE y
FSub(x, y) == FAdd(x, FNeg(y))

At(t, i, j) == t[i + 1][j + 1]

\* Python sequence indexing: 0-based position of index i in a sequence of
\* length n, or -1 where Python raises IndexError.
PyIndex(n, i) ==
    IF i >= 0 /\ i < n THEN i
    ELSE IF i < 0 /\ -i <= n THEN n + i
    ELSE -1

Ok(v) == [ok |-> TRUE, val |-> v, err |-> "none"]
Err(e) == [ok |-> FALSE, val |-> <<>>, err |-> e]

-----------------------------------------------------------------------------
(* LoadingHandler                                                          *)

DISP_AXES == <<"UX", "UY", "UZ">>

Digits == {"0", "1", "2", "3", "4", "5", "6", "7", "8", "9"}

\* int(x) of a one-character string
CharInt(c) ==
    CASE c = "0" -> 0 [] c = "1" -> 1 [] c = "2" -> 2 [] c = "3" -> 3
      [] c = "4" -> 4 [] c = "5" -> 5 [] c = "6" -> 6 [] c = "7" -> 7
      [] c = "8" -> 8 [] c = "9" -> 9

\* direction[-2:]
LastTwo(direction) ==
    IF Len(direction) <= 2 THEN direction
    ELSE SubSeq(direction, Len(direction) - 1, Len(direction))

Base == <<<<Zero, Zero, Zero>>, <<Zero, Zero, Zero>>, <<Zero, Zero, Zero>>>>

\* tensor[i][j] = v for in-range 0-based positions
SetAt(t, i, j, v) == [t EXCEPT ![i + 1][j + 1] = v]

SignOfDirectionNoSign(direction) == 1

SignOfDirection(direction) == IF Len(direction) = 3 THEN -1 ELSE 1

convert_direction_to_strain_tensor(direction, normal_mag, shear_mag, lens) ==
    LET sign == SignOfDirection(direction)
        tail == LastTwo(direction)
    IN  IF \E k \in 1..Len(tail) : tail[k] \notin Digits THEN Err("ValueError")
        ELSE IF Len(tail) # 2 THEN Err("ValueError")
        ELSE
          LET i == CharInt(tail[1]) - 1
              j == CharInt(tail[2]) - 1
              mag0 == IF i = j THEN normal_mag ELSE shear_mag
              pi == PyIndex(3, i)
              pj == PyIndex(3, j)
          IN  IF pi = -1 THEN Err("IndexError")
              ELSE
                LET mag == FDiv(mag0, lens[pi + 1])
                IN  IF pj = -1 THEN Err("IndexError")
                    ELSE
                      LET t1 == SetAt(Base, pi, pj, FMul(R(sign), mag))
                          a == (i + 1) % 3
                          b == (i + 2) % 3
                      IN  IF i = j
                          THEN Ok(SetAt(SetAt(t1, a, a, Null), b, b, Null))
                          ELSE Ok(t1)

\* The list comprehension over directions; the first failing conversion raises.
convert_directions_to_strain_tensors(directions, normal_mag, shear_mag, lens) ==
    LET res == [k \in 1..Len(directions) |->
                   convert_direction_to_strain_tensor(directions[k], normal_mag,
                                                      shear_mag, lens)]
    IN  IF \E k \in 1..Len(directions) : ~res[k].ok
        THEN Err(res[CHOOSE k \in 1..Len(directions) :
                       /\ ~res[k].ok
                       /\ \A m \in 1..(k - 1) : res[m].ok].err)
        ELSE Ok([k \in 1..Len(directions) |-> res[k].val])

ScaleElemUnscaled(elem, mag) == elem

ScaleElem(elem, mag) == IF elem # Null THEN FMul(elem, mag) ELSE Null

ScaleTensor(tensor, mag) ==
    [r \in 1..3 |-> [c \in 1..3 |-> ScaleElem(tensor[r][c], mag)]]

\* domain_size = None models the omitted optional argument.
prepare_loading_tensors(loading_data, domain_size) ==
    IF loading_data.kind = "displacement" THEN
        IF domain_size = None THEN Err("AssertionError")
        ELSE IF ~({"directions", "normalMagnitude", "shearMagnitude"}
                    \subseteq loading_data.attrs)
        THEN Err("AttributeError")
        ELSE convert_directions_to_strain_tensors(
                 loading_data.directions, loading_data.normalMagnitude,
                 loading_data.shearMagnitude, domain_size)
    ELSE IF loading_data.kind = "tensor" THEN
        IF ~({"magnitudeMultiplier", "tensors"} \subseteq loading_data.attrs)
        THEN Err("AttributeError")
        ELSE Ok([k \in 1..Len(loading_data.tensors) |->
                    ScaleTensor(loading_data.tensors[k],
                                loading_data.magnitudeMultiplier)])
    ELSE Err("Exception")

\* LoadingHandler.__init__: the tensors are prepared from the loading alone.
LoadingHandler_init_domain_size(lens) == None

LoadingHandler_init(loading_data, lens) ==
    prepare_loading_tensors(loading_data, LoadingHandler_init_domain_size(lens))

\* TestCaseSkeleton.num_load_cases
num_load_cases(loading_data) ==
    IF "tensors" \in loading_data.attrs THEN Ok(Len(loading_data.tensors))
    ELSE Err("AttributeError")

\* One solver command: cmd(node, lab, value)
Cmd(c, n, l, v) == [cmd |-> c, node |-> n, lab |-> l, value |-> v]

SkipEntryFalsy(strain) == strain = Null \/ strain = Zero

\* "if strain is None: continue"
SkipEntry(strain) == strain = Null

\* The nested loop of apply_strain_tensor from flat position k = 3*i + column.
RECURSIVE StrainCmds(_, _, _, _)
StrainCmds(tensor, rn, lens, k) ==
    IF k = 9 THEN <<>>
    ELSE LET i == k \div 3
             c == k % 3
             strain == At(tensor, i, c)
         IN  (IF SkipEntry(strain) THEN <<>>
              ELSE <<Cmd("d", rn[i + 2], DISP_AXES[c + 1], FMul(strain, lens[i + 1]))>>)
             \o StrainCmds(tensor, rn, lens, k + 1)

apply_strain_tensor_without_delete(tensor, rn, lens) ==
    <<Cmd("run", 0, "/SOLU", Zero), Cmd("allsel", 0, "", Zero)>>
    \o StrainCmds(tensor, rn, lens, 0)
    \o <<Cmd("d", rn[1], "ALL", Zero)>>

apply_strain_tensor(tensor, rn, lens) ==
    <<Cmd("run", 0, "/SOLU", Zero), Cmd("allsel", 0, "", Zero),
      Cmd("ddele", 0, "ALL", Zero)>>
    \o StrainCmds(tensor, rn, lens, 0)
    \o <<Cmd("d", rn[1], "ALL", Zero)>>

\* Effect of the displacement commands on the solver's constraint table
\* (node, DOF) -> imposed value, Null where unconstrained.
NoConstraints(rn) ==
    [nd \in {rn[k] : k \in 1..4}, l \in {"UX", "UY", "UZ"} |-> Null]

ExecCmd(bc, c) ==
    IF c.cmd = "ddele" THEN [x \in DOMAIN bc |-> Null]
    ELSE IF c.cmd = "d" THEN
        [x \in DOMAIN bc |->
            IF x[1] = c.node /\ (c.lab = "ALL" \/ c.lab = x[2]) THEN c.value
            ELSE bc[x]]
    ELSE bc

RECURSIVE ExecCmds(_, _)
ExecCmds(bc, cmds) ==
    IF cmds = <<>> THEN bc ELSE ExecCmds(ExecCmd(bc, Head(cmds)), Tail(cmds))

-----------------------------------------------------------------------------
(* Inputs of the loading model                                             *)

MaxLoadCases == 2

ValidCodes ==
    {<<a, b>> : a \in {"1", "2", "3"}, b \in {"1", "2", "3"}}
    \cup {<<"-", a, b>> : a \in {"1", "2", "3"}, b \in {"1", "2", "3"}}

\* Strings outside ^-?[123][123]$
InvalidCodes ==
    {<<"4", "1">>, <<"1", "4">>, <<"0", "1">>, <<"+", "1", "2">>, <<"1">>,
     <<"1", "2", "3">>}

DirectionCodes == ValidCodes \cup InvalidCodes

MatchesPattern(d) == d \in ValidCodes

SeqsUpTo(S, n) == UNION {[1..m -> S] : m \in 1..n}

\* Magnitudes and edge lengths, drawn together:
\* <<normalMagnitude, shearMagnitude, lengths>>
Setups ==
    {<<<<1, 500>>, <<1, 1000>>, <<R(10), R(10), R(10)>>>>,
     <<R(3), <<1, 2>>, <<R(2), R(4), R(5)>>>>}

EdgeLengths == {su[3] : su \in Setups}

\* Literal input tensors: the orderings of three rows in which every column
\* holds a null, a zero and a nonzero entry.
TensorRows ==
    {<<Zero, R(3), Null>>, <<Null, Zero, <<-1, 4>>>>, <<R(2), Null, Zero>>}

InputTensors ==
    {t \in {<<a, b, c>> : a \in TensorRows, b \in TensorRows, c \in TensorRows} :
        t[1] # t[2] /\ t[1] # t[3] /\ t[2] # t[3]}

Multipliers == {R(2), <<-1, 2>>}

DirectionSpec(ds, nm, sm) ==
    [kind |-> "displacement",
     attrs |-> {"kind", "directions", "normalMagnitude", "shearMagnitude"},
     directions |-> ds, normalMagnitude |-> nm, shearMagnitude |-> sm,
     tensors |-> <<>>, magnitudeMultiplier |-> Zero]

TensorSpecs ==
    {[kind |-> "tensor", attrs |-> {"kind", "tensors", "magnitudeMultiplier"},
      directions |-> <<>>, normalMagnitude |-> Zero, shearMagnitude |-> Zero,
      tensors |-> ts, magnitudeMultiplier |-> mm] :
        ts \in SeqsUpTo(InputTensors, MaxLoadCases), mm \in Multipliers}

OtherSpecs ==
    {[kind |-> "force", attrs |-> {"kind"},
      directions |-> <<>>, normalMagnitude |-> Zero, shearMagnitude |-> Zero,
      tensors |-> <<>>, magnitudeMultiplier |-> Zero]}

NoResult == Err("not called")
NoTensor == <<>>

RetainedNodeSets == {<<41, 7, 19, 23>>}

LoadIdle(rn) ==
    /\ loading = CHOOSE l \in OtherSpecs : TRUE
    /\ lengths = <<R(1), R(1), R(1)>>
    /\ prepared = NoResult
    /\ lh = NoResult
    /\ ansys_log = <<>>
    /\ applied = NoTensor
    /\ disp_bc = NoConstraints(rn)
    /\ converted = [direction |-> <<>>, res |-> NoResult]
    /\ retained_nodes = rn
    /\ pc_load = "idle"

-----------------------------------------------------------------------------
(* SpecLoad: the loading pipeline on one test case                         *)

InitLoad ==
    /\ \E su \in Setups :
          /\ lengths = su[3]
          /\ \/ \E ds \in SeqsUpTo(DirectionCodes, MaxLoadCases) :
                   loading = DirectionSpec(ds, su[1], su[2])
             \/ loading \in TensorSpecs \cup OtherSpecs
    /\ retained_nodes \in RetainedNodeSets
    /\ prepared = NoResult
    /\ lh = NoResult
    /\ ansys_log = <<>>
    /\ applied = NoTensor
    /\ disp_bc = NoConstraints(retained_nodes)
    /\ converted = [direction |-> <<>>, res |-> NoResult]
    /\ pc_load = "start"

\* A direct call convert_direction_to_strain_tensor(directions[k], ...)
ConvertDirection ==
    /\ pc_load = "start"
    /\ loading.kind = "displacement"
    /\ \E k \in 1..Len(loading.directions) :
          converted' = [direction |-> loading.directions[k],
                        res |-> convert_direction_to_strain_tensor(
                                    loading.directions[k], loading.normalMagnitude,
                                    loading.shearMagnitude, lengths)]
    /\ pc_load' = "converted"
    /\ UNCHANGED <<loading, lengths, prepared, lh, ansys_log, applied, disp_bc,
                   retained_nodes>>
    /\ UNCHANGED notLoadVars

\* A direct call prepare_loading_tensors(loading, domain_size=lengths)
PrepareLoadingTensors ==
    /\ pc_load = "start"
    /\ prepared' = prepare_loading_tensors(loading, lengths)
    /\ pc_load' = "prepared"
    /\ UNCHANGED <<loading, lengths, lh, ansys_log, applied, disp_bc, converted,
                   retained_nodes>>
    /\ UNCHANGED notLoadVars

\* LoadingHandler(testrunner)
ConstructLoadingHandler ==
    /\ pc_load = "prepared"
    /\ lh' = LoadingHandler_init(loading, lengths)
    /\ pc_load' = IF lh'.ok THEN "ready" ELSE "failed"
    /\ UNCHANGED <<loading, lengths, prepared, ansys_log, applied, disp_bc,
                   converted, retained_nodes>>
    /\ UNCHANGED notLoadVars

\* loading_handler.apply_strain_tensor(loading_handler.tensors[k - 1])
ApplyStrainTensor ==
    /\ pc_load = "ready"
    /\ \E k \in 1..Len(lh.val) :
          /\ applied' = lh.val[k]
          /\ ansys_log' = apply_strain_tensor(lh.val[k], retained_nodes, lengths)
          /\ disp_bc' = ExecCmds(disp_bc, ansys_log')
    /\ UNCHANGED <<loading, lengths, prepared, lh, converted, retained_nodes,
                   pc_load>>
    /\ UNCHANGED notLoadVars

NextLoad ==
    \/ ConvertDirection
    \/ PrepareLoadingTensors
    \/ ConstructLoadingHandler
    \/ ApplyStrainTensor

-----------------------------------------------------------------------------
(* Properties of the loading pipeline (checked under SpecLoad)             *)

\* Decoding of a direction code as the specification states it.
HasLeadingSign(d) == Len(d) = 3 /\ d[1] = "-"
CodeI(d) == CharInt(d[Len(d) - 1]) - 1
CodeJ(d) == CharInt(d[Len(d)]) - 1

\* C1: for every direction code matching -?[1-3][1-3], convert_direction_to_
\* strain_tensor returns a tensor T with T[i][j] = s*m/L[i] (s = -1 iff the code
\* has a leading sign, m the normal magnitude if i = j, else the shear
\* magnitude); if i = j the two other diagonal entries are null, if i # j no
\* entry is null; every remaining entry is 0.
C1_DirectionTensor ==
    (pc_load = "converted" /\ MatchesPattern(converted.direction)) =>
        LET d == converted.direction
            i == CodeI(d)
            j == CodeJ(d)
            s == IF HasLeadingSign(d) THEN -1 ELSE 1
            m == IF i = j THEN loading.normalMagnitude ELSE loading.shearMagnitude
            T == converted.res.val
        IN  /\ converted.res.ok
            /\ At(T, i, j) = FDiv(FMul(R(s), m), lengths[i + 1])
            /\ \A r \in 0..2, c \in 0..2 :
                  (<<r, c>> # <<i, j>>) =>
                      IF i = j /\ r = c THEN At(T, r, c) = Null
                      ELSE At(T, r, c) = Zero

C1_Witness ==
    /\ pc_load = "converted"
    /\ converted.direction = <<"-", "1", "2">>
    /\ lengths = <<R(10), R(10), R(10)>>
    /\ converted.res.ok
    /\ At(converted.res.val, 0, 1) = <<-1, 10000>>

\* C2: for a TensorSpec, prepare_loading_tensors returns one tensor per input
\* tensor, in input order; every non-null entry is the input entry times
\* magnitudeMultiplier and every null entry stays null in place.
C2_TensorSpecScaled ==
    (pc_load = "prepared" /\ loading.kind = "tensor") =>
        /\ prepared.ok
        /\ Len(prepared.val) = Len(loading.tensors)
        /\ \A k \in 1..Len(loading.tensors) : \A r \in 0..2, c \in 0..2 :
              LET in == At(loading.tensors[k], r, c)
                  out == At(prepared.val[k], r, c)
              IN  IF in = Null THEN out = Null
                  ELSE out # Null /\ out = FMul(in, loading.magnitudeMultiplier)

C2_Witness ==
    /\ pc_load = "prepared"
    /\ loading.kind = "tensor"
    /\ Len(loading.tensors) = 2
    /\ loading.tensors[1] # loading.tensors[2]
    /\ loading.magnitudeMultiplier = <<-1, 2>>
    /\ prepared.ok
    /\ At(loading.tensors[2], 0, 1) = R(3)
    /\ At(prepared.val[2], 0, 1) = <<-3, 2>>
    /\ At(prepared.val[2], 0, 2) = Null

AllDirectionsValid(ld) ==
    \A k \in 1..Len(ld.directions) : MatchesPattern(ld.directions[k])

\* C3: for a DirectionSpec (kind "displacement"), constructing the
\* LoadingHandler succeeds, it holds one tensor per direction code in input
\* order (built from the loading and the domain edge lengths), and the test
\* case's load-case count equals the number of direction codes.
C3_DirectionSpecConstructs ==
    (pc_load \in {"ready", "failed"} /\ loading.kind = "displacement"
       /\ AllDirectionsValid(loading)) =>
        /\ lh.ok
        /\ Len(lh.val) = Len(loading.directions)
        /\ \A k \in 1..Len(loading.directions) :
              Ok(lh.val[k]) = convert_direction_to_strain_tensor(
                                  loading.directions[k], loading.normalMagnitude,
                                  loading.shearMagnitude, lengths)
        /\ num_load_cases(loading) = Ok(Len(loading.directions))

\* Displacement commands of the last apply_strain_tensor call on one DOF
DCmdsOn(node, lab) ==
    {k \in 1..Len(ansys_log) :
        /\ ansys_log[k].cmd = "d"
        /\ ansys_log[k].node = node
        /\ ansys_log[k].lab = lab}

\* C4: apply_strain_tensor(T) issues exactly one displacement constraint for
\* every non-null T[row][col] (zero included), on retained node row+1, DOF col,
\* with value T[row][col]*L[row]; none for a null entry; and it always fixes
\* the three DOFs of retained node 0 to 0.
C4_ApplyStrainTensor ==
    (pc_load = "ready" /\ applied # NoTensor) =>
        /\ \A row \in 0..2, col \in 0..2 :
              LET ks == DCmdsOn(retained_nodes[row + 2], DISP_AXES[col + 1])
                  x == <<retained_nodes[row + 2], DISP_AXES[col + 1]>>
              IN  IF At(applied, row, col) = Null
                  THEN ks = {} /\ disp_bc[x] = Null
                  ELSE /\ Cardinality(ks) = 1
                       /\ \A k \in ks :
                             ansys_log[k].value =
                                 FMul(At(applied, row, col), lengths[row + 1])
                       /\ disp_bc[x] = FMul(At(applied, row, col), lengths[row + 1])
        /\ \A k \in 1..Len(ansys_log) :
              (ansys_log[k].cmd = "d" /\ ansys_log[k].node # retained_nodes[1])
                  => \E row \in 0..2 : ansys_log[k].node = retained_nodes[row + 2]
        /\ ansys_log[Len(ansys_log)] = Cmd("d", retained_nodes[1], "ALL", Zero)
        /\ \A l \in {"UX", "UY", "UZ"} : disp_bc[<<retained_nodes[1], l>>] = Zero

C4_Witness ==
    /\ pc_load = "ready"
    /\ applied # NoTensor
    /\ lengths = <<R(2), R(4), R(5)>>
    /\ At(applied, 1, 0) = Zero
    /\ At(applied, 1, 1) = R(6)
    /\ At(applied, 1, 2) = Null
    /\ disp_bc[<<retained_nodes[3], "UX">>] = Zero
    /\ disp_bc[<<retained_nodes[3], "UY">>] = R(24)
    /\ disp_bc[<<retained_nodes[3], "UZ">>] = Null

-----------------------------------------------------------------------------
(* PBCHandler                                                              *)
(* Coordinates are fixed-point integers, in units of 10^-14 length units,  *)
(* so that rounding to SIG_FIGS significant figures and the near-zero      *)
(* threshold EPSILON both act on the values of the model.                  *)

AXES == <<"X", "Y", "Z">>
SIG_FIGS == 8
\* EPSILON = np.finfo(float).eps * 1e3 = 2.22e-13: 22.2 units
EPSILON == 22
\* TOLERANCE_MULT = 1e-6 = 1 / TOLERANCE_DIV
TOLERANCE_DIV == 1000000

RECURSIVE Pow10(_)
Pow10(n) == IF n <= 0 THEN 1 ELSE 10 * Pow10(n - 1)

\* floor(log10(x)) + 1 for x > 0
RECURSIVE NumDigits(_)
NumDigits(x) == IF x < 10 THEN 1 ELSE 1 + NumDigits(x \div 10)

\* np.round(x / q) * q for a quantum q >= 1: to nearest, ties to even
RoundToQuantum(x, q) ==
    LET lo == x \div q
        r == x % q
    IN  IF 2 * r < q THEN lo * q
        ELSE IF 2 * r > q THEN (lo + 1) * q
        ELSE IF lo % 2 = 0 THEN lo * q ELSE (lo + 1) * q

round_to_sigfigs_identity(x, num) == x

\* utils.round_to_sigfigs on one value
round_to_sigfigs(x, num) ==
    IF x = 0 THEN 0
    ELSE LET digits == NumDigits(Abs(x))
         IN  IF digits <= num THEN x
             ELSE RoundToQuantum(x, Pow10(digits - num))

\* np.diff(mesh_extents) * TOLERANCE_MULT, as the largest whole number of
\* units within the tolerance
Tolerance(axis_extents) == (axis_extents[2] - axis_extents[1]) \div TOLERANCE_DIV

SetMin(S) == CHOOSE x \in S : \A y \in S : x <= y
SetMax(S) == CHOOSE x \in S : \A y \in S : x >= y

\* TestRunner.mesh_extents: [[-x, +x], [-y, +y], [-z, +z]]
mesh_extents(msh) ==
    [a \in 1..3 |-> <<SetMin({msh[n][a] : n \in DOMAIN msh}),
                      SetMax({msh[n][a] : n \in DOMAIN msh})>>]

\* Ascending sequence of a finite set of integers (mesh.nnum order)
RECURSIVE Ascending(_)
Ascending(S) ==
    IF S = {} THEN <<>> ELSE <<SetMin(S)>> \o Ascending(S \ {SetMin(S)})

\* nsel("S", "LOC", axis, value) under seltol(tolerance): the numbers of the
\* selected nodes as mesh.nnum lists them
SelectLoc(msh, axis_ind, value, tolerance) ==
    Ascending({n \in DOMAIN msh : Abs(msh[n][axis_ind + 1] - value) <= tolerance})

\* round_to_sigfigs(self.ansys.mesh.nodes, SIG_FIGS) for the listed nodes
RoundedCoords(msh, nnum) ==
    [k \in 1..Len(nnum) |->
        [a \in 1..3 |-> round_to_sigfigs(msh[nnum[k]][a], SIG_FIGS)]]

\* np.delete(nodes, axis_index, axis=1) on one row
DeleteAxis(row, axis_ind) ==
    CASE axis_ind = 0 -> <<row[2], row[3]>>
      [] axis_ind = 1 -> <<row[1], row[3]>>
      [] axis_ind = 2 -> <<row[1], row[2]>>

\* np.where(np.abs(nodes) > EPSILON, nodes, 0.0) on one value
SnapZero(x) == IF Abs(x) > EPSILON THEN x ELSE 0

clean_node_coords(nodes, axis_ind) ==
    [k \in 1..Len(nodes) |->
        LET d == DeleteAxis(nodes[k], axis_ind)
        IN  <<SnapZero(d[1]), SnapZero(d[2])>>]

LexLessFirstColumn(a, b) == a[1] < b[1] \/ (a[1] = b[1] /\ a[2] < b[2])

\* np.lexsort(np.transpose(nodes)): the last key (second column) is the
\* primary key, the first column the secondary key
LexLess(a, b) == a[2] < b[2] \/ (a[2] = b[2] /\ a[1] < b[1])

\* Stable insertion of row x into the sorted sequence s
RECURSIVE InsertStable(_, _)
InsertStable(s, x) ==
    IF s = <<>> THEN <<x>>
    ELSE IF LexLess(x, Head(s)) THEN <<x>> \o s
    ELSE <<Head(s)>> \o InsertStable(Tail(s), x)

RECURSIVE StableSort(_)
StableSort(s) ==
    IF s = <<>> THEN <<>>
    ELSE InsertStable(StableSort(SubSeq(s, 1, Len(s) - 1)), s[Len(s)])

sort_2d_unsorted(nodes, node_nums) ==
    [k \in 1..Len(nodes) |-> <<nodes[k][1], nodes[k][2], node_nums[k]>>]

\* Rows <<coordinate 1, coordinate 2, node number>>, sorted by coordinates
sort_2d_with_index(nodes, node_nums) ==
    StableSort([k \in 1..Len(nodes) |-> <<nodes[k][1], nodes[k][2], node_nums[k]>>])

Coords2(face_nodes) == [k \in 1..Len(face_nodes) |-> <<face_nodes[k][1], face_nodes[k][2]>>]

verify_equality_unchecked(arr1, arr2) == TRUE

\* np.array_equal on the two coordinate arrays
verify_equality(arr1, arr2) == arr1 = arr2

StackPairsReversed(face_nodes_pos, face_nodes_neg) ==
    [k \in 1..Len(face_nodes_pos) |->
        <<face_nodes_pos[k][3], face_nodes_neg[Len(face_nodes_neg) + 1 - k][3]>>]

\* np.stack((face_nodes_pos[:, -1], face_nodes_neg[:, -1])).astype(int).T
StackPairs(face_nodes_pos, face_nodes_neg) ==
    [k \in 1..Len(face_nodes_pos) |-> <<face_nodes_pos[k][3], face_nodes_neg[k][3]>>]

\* get_opposite_face_nodes, given the two selections the solver returned
\* (node numbers in the order the solver lists them)
get_opposite_face_nodes(msh, nnum_pos, nnum_neg) ==
    IF Len(nnum_pos) # Len(nnum_neg) THEN Err("AssertionError")
    ELSE Ok([nodes_pos |-> RoundedCoords(msh, nnum_pos), nnum_pos |-> nnum_pos,
             nodes_neg |-> RoundedCoords(msh, nnum_neg), nnum_neg |-> nnum_neg])

\* One iteration of the loop of find_node_pairs, for the selections
\* nnum_pos and nnum_neg of axis axis_ind
FacePairs(msh, axis_ind, nnum_pos, nnum_neg) ==
    LET sel == get_opposite_face_nodes(msh, nnum_pos, nnum_neg)
    IN  IF ~sel.ok THEN sel
        ELSE
          LET face_nodes_pos ==
                  sort_2d_with_index(clean_node_coords(sel.val.nodes_pos, axis_ind),
                                     sel.val.nnum_pos)
              face_nodes_neg ==
                  sort_2d_with_index(clean_node_coords(sel.val.nodes_neg, axis_ind),
                                     sel.val.nnum_neg)
          IN  IF ~verify_equality(Coords2(face_nodes_pos), Coords2(face_nodes_neg))
              THEN Err("AssertionError")
              ELSE Ok(StackPairs(face_nodes_pos, face_nodes_neg))

SelectPos(msh, axis_ind) ==
    LET ext == mesh_extents(msh)[axis_ind + 1]
    IN  SelectLoc(msh, axis_ind, ext[2], Tolerance(ext))

SelectNeg(msh, axis_ind) ==
    LET ext == mesh_extents(msh)[axis_ind + 1]
    IN  SelectLoc(msh, axis_ind, ext[1], Tolerance(ext))

find_node_pairs(msh) ==
    LET res == [axis_ind \in 0..2 |->
                   FacePairs(msh, axis_ind, SelectPos(msh, axis_ind),
                             SelectNeg(msh, axis_ind))]
    IN  IF \E a \in 0..2 : ~res[a].ok
        THEN [ok |-> FALSE, val |-> <<>>, err |-> "AssertionError",
              axis |-> CHOOSE a \in 0..2 : ~res[a].ok /\ \A b \in 0..(a - 1) : res[b].ok]
        ELSE [ok |-> TRUE, val |-> <<res[0].val, res[1].val, res[2].val>>,
              err |-> "none", axis |-> -1]

\* One constraint equation: sum of coefficient * u(node, lab) = 0
CE_own_axis_node_first(ax, pair, rn, i) ==
    [lab |-> ax,
     terms |-> <<<<pair[1], 1>>, <<pair[2], -1>>, <<rn[1], -1>>, <<rn[i + 2], 1>>>>]

CE(ax, pair, rn, i) ==
    [lab |-> ax,
     terms |-> <<<<pair[1], 1>>, <<pair[2], -1>>, <<rn[i + 2], -1>>, <<rn[1], 1>>>>]

RECURSIVE PairCEs(_, _, _)
PairCEs(pair_set, rn, i) ==
    IF pair_set = <<>> THEN <<>>
    ELSE (IF rn[1] = Head(pair_set)[1] \/ rn[1] = Head(pair_set)[2] THEN <<>>
          ELSE [k \in 1..3 |-> CE(DISP_AXES[k], Head(pair_set), rn, i)])
         \o PairCEs(Tail(pair_set), rn, i)

\* The constraint equations apply_periodic_conditions emits once
\* find_node_pairs has returned found; none when it raised
apply_periodic_conditions(found, rn) ==
    IF ~found.ok THEN <<>>
    ELSE PairCEs(found.val[1], rn, 0) \o PairCEs(found.val[2], rn, 1)
         \o PairCEs(found.val[3], rn, 2)

-----------------------------------------------------------------------------
(* Inputs of the periodicity model: a box of edge BoxEdge with its eight   *)
(* corner nodes, optional mid-face nodes on the X faces, and small         *)
(* displacements of single coordinates (mesh-generation jitter).           *)

BoxEdge == 1000000000
MidFace == 500000000
MaxPerturbations == 1

\* Corner nodes, numbered out of geometric order
CornerMesh ==
    (3 :> <<0, 0, 0>>) @@ (6 :> <<BoxEdge, 0, 0>>) @@ (1 :> <<0, BoxEdge, 0>>)
    @@ (8 :> <<BoxEdge, BoxEdge, 0>>) @@ (5 :> <<0, 0, BoxEdge>>)
    @@ (2 :> <<BoxEdge, 0, BoxEdge>>) @@ (7 :> <<0, BoxEdge, BoxEdge>>)
    @@ (4 :> <<BoxEdge, BoxEdge, BoxEdge>>)

\* TestRunner.get_retained_nodes: the nodes at (-x,-y,-z), (+x,-y,-z),
\* (-x,+y,-z), (-x,-y,+z)
CornerRetained == <<3, 6, 1, 5>>

\* Mid-face nodes: none; one on +X alone; two on each X face that differ
\* below the eighth significant figure
ExtraNodes ==
    { <<>>,
      (9 :> <<BoxEdge, MidFace, MidFace>>),
      (9 :> <<BoxEdge, MidFace, MidFace>>) @@ (10 :> <<0, MidFace, MidFace>>)
        @@ (11 :> <<BoxEdge, MidFace + 3, MidFace>>)
        @@ (12 :> <<0, MidFace + 3, MidFace>>) }

\* below EPSILON; above EPSILON but below the rounding quantum at BoxEdge;
\* above both but within the selection tolerance; beyond the tolerance
Deltas == {7, 40, 300, 5000}

Perturbations == {<<n, a, d>> : n \in DOMAIN CornerMesh, a \in 1..3, d \in Deltas}

Perturb(msh, ps) ==
    [n \in DOMAIN msh |->
        [a \in 1..3 |->
            IF \E p \in ps : p[1] = n /\ p[2] = a
            THEN msh[n][a] + (CHOOSE p \in ps : p[1] = n /\ p[2] = a)[3]
            ELSE msh[n][a]]]

\* Sets of at most k perturbations of distinct coordinates
RECURSIVE PerturbationSets(_)
PerturbationSets(k) ==
    IF k = 0 THEN {{}}
    ELSE LET smaller == PerturbationSets(k - 1)
         IN  smaller \cup
             UNION {{ps \cup {p} : p \in {q \in Perturbations :
                                      \A o \in ps : o[1] # q[1] \/ o[2] # q[2]}} :
                    ps \in smaller}

Meshes == {Perturb(CornerMesh, ps) @@ ex : ps \in PerturbationSets(MaxPerturbations), ex \in ExtraNodes}

NoPairs == [ok |-> FALSE, val |-> <<>>, err |-> "not called", axis |-> -1]

PbcIdle(msh) ==
    /\ mesh = msh
    /\ pair_sets = NoPairs
    /\ ce_log = <<>>
    /\ pc_pbc = "idle"

-----------------------------------------------------------------------------
(* SpecPBC: periodic boundary conditions on one mesh                       *)

InitPBC ==
    /\ mesh \in Meshes
    /\ pair_sets = NoPairs
    /\ ce_log = <<>>
    /\ pc_pbc = "start"

\* pbc_handler.find_node_pairs(mesh_extents)
FindNodePairs ==
    /\ pc_pbc = "start"
    /\ pair_sets' = find_node_pairs(mesh)
    /\ pc_pbc' = IF pair_sets'.ok THEN "paired" ELSE "mismatch"
    /\ UNCHANGED <<mesh, ce_log>>
    /\ UNCHANGED notPbcVars

\* pbc_handler.apply_periodic_conditions()
ApplyPeriodicConditions ==
    /\ pc_pbc = "start"
    /\ pair_sets' = find_node_pairs(mesh)
    /\ ce_log' = apply_periodic_conditions(pair_sets', retained_nodes)
    /\ pc_pbc' = IF pair_sets'.ok THEN "applied" ELSE "aborted"
    /\ UNCHANGED mesh
    /\ UNCHANGED notPbcVars

NextPBC ==
    \/ FindNodePairs
    \/ ApplyPeriodicConditions

-----------------------------------------------------------------------------
(* Properties of the face pairing (checked under SpecPBC)                  *)

\* Cleaned transverse coordinates of node n for axis axis_ind
CleanedTransverse(n, axis_ind) ==
    LET rounded == [a \in 1..3 |-> round_to_sigfigs(mesh[n][a], SIG_FIGS)]
        d == DeleteAxis(rounded, axis_ind)
    IN  <<SnapZero(d[1]), SnapZero(d[2])>>

OnPositiveFace(n, axis_ind) ==
    LET ext == mesh_extents(mesh)[axis_ind + 1]
    IN  Abs(mesh[n][axis_ind + 1] - ext[2]) <= Tolerance(ext)

OnNegativeFace(n, axis_ind) ==
    LET ext == mesh_extents(mesh)[axis_ind + 1]
    IN  Abs(mesh[n][axis_ind + 1] - ext[1]) <= Tolerance(ext)

\* C5: whenever find_node_pairs returns, on each axis every returned pair
\* (p, n) is a node p of the positive face and a node n of the negative face
\* whose cleaned transverse coordinates are exactly equal.
C5_PairsMatch ==
    pair_sets.ok =>
        \A a \in 0..2 : \A k \in 1..Len(pair_sets.val[a + 1]) :
            LET p == pair_sets.val[a + 1][k][1]
                n == pair_sets.val[a + 1][k][2]
            IN  /\ p \in DOMAIN mesh /\ n \in DOMAIN mesh
                /\ OnPositiveFace(p, a)
                /\ OnNegativeFace(n, a)
                /\ CleanedTransverse(p, a) = CleanedTransverse(n, a)

\* Jitter on node 6 = (+x, -y, -z) is cleaned away and the node is paired
\* with node 3 across X and with node 8 across Y.
C5_Witness ==
    /\ pc_pbc = "paired"
    /\ mesh[6] = <<BoxEdge, 7, 0>>
    /\ \E k \in 1..Len(pair_sets.val[1]) : pair_sets.val[1][k] = <<6, 3>>
    /\ \E k \in 1..Len(pair_sets.val[2]) : pair_sets.val[2][k] = <<8, 6>>

\* All orderings of a sequence
RECURSIVE Orderings(_)
Orderings(s) ==
    IF Len(s) <= 1 THEN {s}
    ELSE UNION {{<<s[k]>> \o t :
                   t \in Orderings(SubSeq(s, 1, k - 1) \o SubSeq(s, k + 1, Len(s)))} :
                k \in 1..Len(s)}

\* C6: for one axis, the ordered pair sequence of the face-pair resolution is
\* the same for every permutation of the positive-face node list and every
\* permutation of the negative-face node list the solver may supply.
C6_OrderIndependent ==
    (pc_pbc = "paired") =>
        \A a \in 0..2 :
            \A pos \in Orderings(SelectPos(mesh, a)) :
                \A neg \in Orderings(SelectNeg(mesh, a)) :
                    FacePairs(mesh, a, pos, neg) = Ok(pair_sets.val[a + 1])

FaceCount(nodes, axis_ind, v) ==
    Cardinality({n \in nodes : CleanedTransverse(n, axis_ind) = v})

\* The two faces of an axis disagree: in node count, or in the cleaned
\* transverse coordinates they hold (with multiplicity)
FacesDisagree(axis_ind) ==
    LET P == {n \in DOMAIN mesh : OnPositiveFace(n, axis_ind)}
        N == {n \in DOMAIN mesh : OnNegativeFace(n, axis_ind)}
    IN  \/ Cardinality(P) # Cardinality(N)
        \/ \E m \in P \cup N :
             FaceCount(P, axis_ind, CleanedTransverse(m, axis_ind))
               # FaceCount(N, axis_ind, CleanedTransverse(m, axis_ind))

\* C7: if on some axis the two opposite faces differ in node count or in
\* their cleaned, sorted transverse coordinates, find_node_pairs fails with an
\* error at such an axis and returns no pair sets, and
\* apply_periodic_conditions emits no constraint equation.
C7_MismatchFails ==
    (pc_pbc \in {"paired", "mismatch", "applied", "aborted"}
       /\ \E a \in 0..2 : FacesDisagree(a)) =>
        /\ ~pair_sets.ok
        /\ pair_sets.err = "AssertionError"
        /\ pair_sets.val = <<>>
        /\ pair_sets.axis \in 0..2 /\ FacesDisagree(pair_sets.axis)
        /\ pc_pbc \in {"mismatch", "aborted"}
        /\ ce_log = <<>>

\* Same node counts, but node 8 = (+x, +y, -z) is off by more than the
\* rounding removes: the Y faces agree, the X faces do not.
C7_Witness ==
    /\ pc_pbc = "aborted"
    /\ mesh[8] = <<BoxEdge, BoxEdge, 300>>
    /\ DOMAIN mesh = DOMAIN CornerMesh
    /\ FacesDisagree(0)
    /\ pair_sets.axis = 0
    /\ ce_log = <<>>

-----------------------------------------------------------------------------
(* ResultsHandler                                                          *)

\* A property label is its sequence of characters: "G12" is <<"G","1","2">>
Label(k, a, b) == <<k, a, b>>

AVAILABLE_PROPERTIES ==
    << Label("E","1","1"), Label("E","2","2"), Label("E","3","3"),
       Label("G","1","2"), Label("G","1","3"), Label("G","2","1"),
       Label("G","2","3"), Label("G","3","1"), Label("G","3","2"),
       Label("v","1","2"), Label("v","1","3"), Label("v","2","1"),
       Label("v","2","3"), Label("v","3","1"), Label("v","3","2") >>

\* Vectors and 3x3 arrays of floats
VSub(u, v) == [a \in 1..3 |-> FSub(u[a], v[a])]
VRecip(v) == [a \in 1..3 |-> FRecip(v[a])]
outer_transposed(u, v) == [a \in 1..3 |-> [b \in 1..3 |-> FMul(u[b], v[a])]]
outer(u, v) == [a \in 1..3 |-> [b \in 1..3 |-> FMul(u[a], v[b])]]
TAdd(x, y) == [a \in 1..3 |-> [b \in 1..3 |-> FAdd(x[a][b], y[a][b])]]
TDivScalar(x, c) == [a \in 1..3 |-> [b \in 1..3 |-> FDiv(x[a][b], c)]]
TMulScalar(c, x) == [a \in 1..3 |-> [b \in 1..3 |-> FMul(c, x[a][b])]]
transpose(x) == [a \in 1..3 |-> [b \in 1..3 |-> x[b][a]]]

nonfinite_kept(array) == array

\* np.where(np.isfinite(array), array, 0.0)
nonfinite_to_zero(array) ==
    [a \in 1..3 |-> [b \in 1..3 |-> IF IsFinite(array[a][b]) THEN array[a][b] ELSE Zero]]

rel_coord_absolute(retained_coords, i) == retained_coords[i + 1]

\* rel_coord[i] = retained_coords[i] - retained_coords[0]
rel_coord(retained_coords, i) == VSub(retained_coords[i + 1], retained_coords[1])

calculate_macro_stress(retained_coords, retained_forces, vol) ==
    LET term(i) == outer(rel_coord(retained_coords, i), retained_forces[i + 1])
    IN  TDivScalar(TAdd(TAdd(TAdd(term(0), term(1)), term(2)), term(3)), vol)

\* One summand of calculate_displacement_gradient, n in 1..3
displacement_gradient_term(retained_coords, retained_disps, n) ==
    nonfinite_to_zero(outer(retained_disps[n + 1], VRecip(rel_coord(retained_coords, n))))

calculate_displacement_gradient(retained_coords, retained_disps) ==
    LET term(n) == displacement_gradient_term(retained_coords, retained_disps, n)
    IN  TAdd(TAdd(term(1), term(2)), term(3))

calculate_macro_strain(retained_coords, retained_disps) ==
    LET disp_grad == calculate_displacement_gradient(retained_coords, retained_disps)
    IN  TMulScalar(<<1, 2>>, TAdd(disp_grad, transpose(disp_grad)))

\* calculate_macro_tensors: the debug_results entry of one load case
calculate_macro_tensors(rr, vol) ==
    LET retained_coords == [k \in 1..4 |-> rr[k].coord]
        retained_disps == [k \in 1..4 |-> rr[k].disp]
        retained_forces == [k \in 1..4 |-> rr[k].force]
    IN  [retained_results |-> rr,
         macro_stress |-> calculate_macro_stress(retained_coords, retained_forces, vol),
         displacement_gradient |->
             calculate_displacement_gradient(retained_coords, retained_disps),
         macro_strain |-> calculate_macro_strain(retained_coords, retained_disps)]

\* itertools.permutations(pool, r=2): ordered pairs of distinct positions, in
\* lexicographic order of position
permutations2(pool) ==
    LET n == Len(pool)
        idx == [k \in 1..(n * n) |-> <<((k - 1) \div n) + 1, ((k - 1) % n) + 1>>]
        kept == SelectSeq(idx, LAMBDA p : p[1] # p[2])
    IN  [k \in 1..Len(kept) |-> <<pool[kept[k][1]], pool[kept[k][2]]>>]

dict_store_replacing(d, key, value) == [k \in {key} |-> value]

\* self.results[load_case] = properties: the other entries of the dict stay
dict_store(d, key, value) ==
    [k \in DOMAIN d \cup {key} |-> IF k = key THEN value ELSE d[k]]

\* The properties dict calculate_properties stores for one load case
calculate_properties(tensors) ==
    LET macro_stress == tensors.macro_stress
        macro_strain == tensors.macro_strain
        displacement_gradient == tensors.displacement_gradient
        pairs == permutations2(<<0, 1, 2>>)
    IN  [elasticModuli |->
             [k \in 1..3 |-> FDiv(At(macro_stress, k - 1, k - 1),
                                  At(macro_strain, k - 1, k - 1))],
         poissonsRatios |->
             [k \in 1..Len(pairs) |->
                 LET i == pairs[k][1]
                     j == pairs[k][2]
                 IN  FDiv(FMul(R(-1), At(macro_strain, j, j)), At(macro_strain, i, i))],
         shearModuli |->
             [k \in 1..Len(pairs) |->
                 LET i == pairs[k][1]
                     j == pairs[k][2]
                 IN  FDiv(At(macro_stress, j, i), At(displacement_gradient, j, i))]]

\* 0-based position of the first x in seq, -1 when absent
IndexOf(seq, x) ==
    IF \E k \in 1..Len(seq) : seq[k] = x
    THEN (CHOOSE k \in 1..Len(seq) : seq[k] = x /\ \A m \in 1..(k - 1) : seq[m] # x) - 1
    ELSE -1

\* key_map; "" where Python raises KeyError
key_map(key) ==
    CASE key = "E" -> "elasticModuli"
      [] key = "G" -> "shearModuli"
      [] key = "v" -> "poissonsRatios"
      [] OTHER -> ""

index_map_transposed(idx) ==
    IF Len(idx) # 2 THEN -1
    ELSE IF idx[1] = idx[2] THEN IndexOf(<<"1", "2", "3">>, idx[1])
    ELSE IndexOf(permutations2(<<"1", "2", "3">>), <<idx[2], idx[1]>>)

\* index_map: dict(zip(joined permutations("123", 2), range(6)))
\*            | dict(zip(["11", "22", "33"], range(3))); -1 for KeyError
index_map(idx) ==
    LET diagonal == <<<<"1", "1">>, <<"2", "2">>, <<"3", "3">>>>
    IN  IF IndexOf(diagonal, idx) >= 0 THEN IndexOf(diagonal, idx)
        ELSE IndexOf(permutations2(<<"1", "2", "3">>), idx)

IsAllLowerCase(prop_set) == prop_set[1] = <<"a", "l", "l">>

\* prop_set[0].lower() == "all"
IsAll(prop_set) ==
    /\ Len(prop_set[1]) = 3
    /\ prop_set[1][1] \in {"a", "A"}
    /\ prop_set[1][2] \in {"l", "L"}
    /\ prop_set[1][3] \in {"l", "L"}

Range(seq) == {seq[k] : k \in 1..Len(seq)}

RepeatOnce(seq, n) == seq

RECURSIVE Repeat(_, _)
Repeat(seq, n) == IF n <= 0 THEN <<>> ELSE seq \o Repeat(seq, n - 1)

Min2(a, b) == IF a < b THEN a ELSE b

\* results_set[key_map[key]][index_map[idx]] for one label
LookupProperty(results_set, prop) ==
    LET key == prop[1]
        idx == SubSeq(prop, 2, Len(prop))
    IN  IF key_map(key) = "" \/ index_map(idx) < 0 THEN Err("KeyError")
        ELSE IF index_map(idx) >= Len(results_set[key_map(key)]) THEN Err("IndexError")
        ELSE Ok(results_set[key_map(key)][index_map(idx) + 1])

LabelRow == <<"Label">>

\* Code point of a character of a property label
CharCode(c) ==
    CASE c \in Digits -> 48 + CharInt(c)
      [] c = "A" -> 65 [] c = "E" -> 69 [] c = "G" -> 71 [] c = "L" -> 76
      [] c = "a" -> 97 [] c = "l" -> 108 [] c = "v" -> 118

\* s < t for strings, as np.unique orders them
RECURSIVE StrLess(_, _)
StrLess(s, t) ==
    IF t = <<>> THEN FALSE
    ELSE IF s = <<>> THEN TRUE
    ELSE IF CharCode(Head(s)) # CharCode(Head(t)) THEN CharCode(Head(s)) < CharCode(Head(t))
    ELSE StrLess(Tail(s), Tail(t))

RECURSIVE unique_descending(_)
unique_descending(S) ==
    IF S = {} THEN <<>>
    ELSE LET hi == CHOOSE x \in S : \A y \in S \ {x} : StrLess(y, x)
         IN  <<hi>> \o unique_descending(S \ {hi})

\* list(np.unique(np.hstack(expected_property_sets))): sorted, no repeats
RECURSIVE unique(_)
unique(S) ==
    IF S = {} THEN <<>>
    ELSE LET lo == CHOOSE x \in S : \A y \in S \ {x} : StrLess(x, y)
         IN  <<lo>> \o unique(S \ {lo})

\* collect_expected_properties: rows are labels, columns load cases, a cell
\* not requested is NaN
zip_one_short(prop_sets, res) == 1..(Min2(Len(prop_sets), Len(res)) - 1)

\* zip(expected_property_sets, results.items()) stops at the shorter one
zip(prop_sets, res) == 1..Min2(Len(prop_sets), Len(res))

collect_expected_properties(res, expected_property_sets, num, lbls) ==
    IF num # Len(res) THEN Err("AssertionError")
    ELSE
        LET replaced == [k \in 1..Len(expected_property_sets) |->
                            IF IsAll(expected_property_sets[k]) THEN AVAILABLE_PROPERTIES
                            ELSE expected_property_sets[k]]
            extended == IF Len(replaced) = 1 /\ num > 1 THEN Repeat(replaced, num)
                        ELSE replaced
            zipped == zip(extended, res)
            with_labels == lbls # None /\ Len(lbls) > 0
            requested == UNION {Range(extended[k]) : k \in 1..Len(extended)}
            df_index == requested \cup (IF with_labels THEN {LabelRow} ELSE {})
            columns == 1..Len(res)
            failed == {<<k, prop>> \in zipped \X df_index :
                          /\ prop \in Range(extended[k])
                          /\ ~LookupProperty(res[k], prop).ok}
        IN  IF with_labels /\ Len(lbls) # Len(res) THEN Err("ValueError")
            ELSE IF failed # {}
            THEN Err(LET f == CHOOSE f \in failed : TRUE
                     IN  LookupProperty(res[f[1]], f[2]).err)
            ELSE Ok([index |-> (IF with_labels THEN <<LabelRow>> ELSE <<>>)
                                 \o unique(requested),
                     columns |-> [c \in 1..Len(res) |-> c],
                     cells |-> [cell \in df_index \X columns |->
                        IF cell[1] = LabelRow /\ with_labels THEN lbls[cell[2]]
                        ELSE IF cell[2] \in zipped /\ cell[1] \in Range(extended[cell[2]])
                        THEN LookupProperty(res[cell[2]], cell[1]).val
                        ELSE NaN]])

\* ---- Inputs of a results run

MaxResultCases == 2

Q(n, d) == Norm(n, d)
Vec(x, y, z, d) == <<Q(x, d), Q(y, d), Q(z, d)>>

\* Retained node coordinates [N0, N1, N2, N3]: a box at the origin, a box
\* away from the origin with N2 on the negative side, a sheared cell
RetainedCoords ==
    { <<Vec(0, 0, 0, 1), Vec(2, 0, 0, 1), Vec(0, 4, 0, 1), Vec(0, 0, 5, 1)>>,
      <<Vec(1, 1, 1, 1), Vec(3, 1, 1, 1), Vec(1, -3, 1, 1), Vec(1, 1, 6, 1)>>,
      <<Vec(1, 0, 0, 1), Vec(3, 1, 0, 1), Vec(1, 4, 0, 1), Vec(1, 0, 5, 1)>> }

\* Solver output of one load case: <<displacements, reaction forces>>
Solutions ==
    { << <<Vec(0, 0, 0, 100), Vec(3, 0, 5, 100), Vec(7, 11, 0, 100), Vec(13, 17, 19, 100)>>,
         <<Vec(0, 0, 0, 1), Vec(10, 20, 30, 1), Vec(40, 50, 60, 1), Vec(70, 80, 90, 1)>> >>,
      << <<Vec(9, 9, 9, 100), Vec(2, -3, 4, 100), Vec(-6, 1, 8, 100), Vec(0, 0, 0, 100)>>,
         <<Vec(5, -5, 5, 1), Vec(1, 0, 0, 1), Vec(0, -2, 7, 1), Vec(3, 3, 0, 1)>> >> }

RetainedResultSets ==
    { [k \in 1..4 |-> [coord |-> c[k], disp |-> sol[1][k], force |-> sol[2][k]]] :
        c \in RetainedCoords, sol \in Solutions }

Volumes == {R(40), Q(1, 2)}

AllToken == <<"A", "l", "l">>

\* expectedProperties of a run of n load cases: everything; one set for all
\* load cases; one set per load case
CaseProperties(c) ==
    IF c % 2 = 1
    THEN <<Label("E","1","1"), Label("v","1","2"), Label("v","3","1"), Label("G","2","1")>>
    ELSE <<Label("G","1","2"), Label("G","3","2"), Label("E","3","3"), Label("v","2","3")>>

ExpectedPropertySets(n) ==
    { <<<<AllToken>>>>,
      <<CaseProperties(1)>>,
      [c \in 1..n |-> CaseProperties(c)] }

CaseLabel(c) == IF c % 2 = 1 THEN "tension" ELSE "shear"

LabelSets(n) == {None, [c \in 1..n |-> CaseLabel(c)]}

NoReport == Err("not called")

ResIdle(vol) ==
    /\ n_cases = 0
    /\ volume = vol
    /\ expectedProperties = <<>>
    /\ labels = None
    /\ load_case = 0
    /\ retained_results = <<>>
    /\ results = <<>>
    /\ debug_results = <<>>
    /\ reportedProperties = NoReport
    /\ pc_res = "idle"

\* State at the top of run_test_sequence
InitRes ==
    /\ n_cases \in 1..MaxResultCases
    /\ volume \in Volumes
    /\ expectedProperties \in ExpectedPropertySets(n_cases)
    /\ labels \in LabelSets(n_cases)
    /\ load_case = 1
    /\ retained_results = <<>>
    /\ results = <<>>
    /\ debug_results = <<>>
    /\ reportedProperties = NoReport
    /\ pc_res = "extract"

\* extract_raw_results: coordinates, displacements and reaction forces of the
\* retained nodes as the solver wrote them for this load case
ExtractRawResults ==
    /\ pc_res = "extract"
    /\ load_case <= n_cases
    /\ \E rr \in RetainedResultSets : retained_results' = rr
    /\ pc_res' = "calculate"
    /\ UNCHANGED <<n_cases, volume, expectedProperties, labels, load_case, results,
                   debug_results, reportedProperties>>
    /\ UNCHANGED notResVars

\* calculate_properties(load_case), then the next iteration of the loop
CalculateProperties ==
    /\ pc_res = "calculate"
    /\ LET tensors == calculate_macro_tensors(retained_results, volume)
       IN  /\ debug_results' = Append(debug_results, tensors)
           /\ results' = dict_store(results, load_case, calculate_properties(tensors))
    /\ load_case' = load_case + 1
    /\ pc_res' = IF load_case < n_cases THEN "extract" ELSE "compile"
    /\ UNCHANGED <<n_cases, volume, expectedProperties, labels, retained_results,
                   reportedProperties>>
    /\ UNCHANGED notResVars

\* compile_results at the end of run_test_sequence
CompileResults ==
    /\ pc_res = "compile"
    /\ reportedProperties' =
           collect_expected_properties(results, expectedProperties, n_cases, labels)
    /\ pc_res' = "done"
    /\ UNCHANGED <<n_cases, volume, expectedProperties, labels, load_case,
                   retained_results, results, debug_results>>
    /\ UNCHANGED notResVars

NextRes == ExtractRawResults \/ CalculateProperties \/ CompileResults

\* ---- collect_expected_properties called on its own

\* Most label-sets of a call; most result sets and declared load cases
MaxReportCases == 2
MaxReportColumns == 3

AllLower == <<"a", "l", "l">>
AllUpper == <<"A", "L", "L">>

\* Label-sets a caller may pass: 'all' in two spellings, two valid sets, two
\* sets with a diagonal shear or Poisson label
PropertySetPool ==
    { <<AllLower>>, <<AllUpper>>, CaseProperties(1), CaseProperties(2),
      <<Label("G","1","1"), Label("E","2","2")>>, <<Label("v","3","3")>> }

\* Property sets of finished load cases, from two solver results of a box
\* with edges 2, 4, 5 and volume 40
BoxCoords == <<Vec(0, 0, 0, 1), Vec(2, 0, 0, 1), Vec(0, 4, 0, 1), Vec(0, 0, 5, 1)>>

OddCaseRetained ==
    LET disp == <<Vec(0, 0, 0, 100), Vec(3, 0, 5, 100), Vec(7, 11, 0, 100),
                  Vec(13, 17, 19, 100)>>
        force == <<Vec(0, 0, 0, 1), Vec(10, 20, 30, 1), Vec(40, 50, 60, 1),
                   Vec(70, 80, 90, 1)>>
        IN  [k \in 1..4 |-> [coord |-> BoxCoords[k], disp |-> disp[k], force |-> force[k]]]

EvenCaseRetained ==
    LET disp == <<Vec(9, 9, 9, 100), Vec(2, -3, 4, 100), Vec(-6, 1, 8, 100),
                  Vec(0, 0, 0, 100)>>
        force == <<Vec(5, -5, 5, 1), Vec(1, 0, 0, 1), Vec(0, -2, 7, 1), Vec(3, 3, 0, 1)>>
        IN  [k \in 1..4 |-> [coord |-> BoxCoords[k], disp |-> disp[k], force |-> force[k]]]

OddCaseResults == calculate_properties(calculate_macro_tensors(OddCaseRetained, R(40)))

EvenCaseResults == calculate_properties(calculate_macro_tensors(EvenCaseRetained, R(40)))

CaseRetained(c) == IF c % 2 = 1 THEN OddCaseRetained ELSE EvenCaseRetained

CaseResults(c) == IF c % 2 = 1 THEN OddCaseResults ELSE EvenCaseResults

CallArguments ==
    { [results |-> [c \in 1..n |-> CaseResults(c)],
       expected_property_sets |-> sets,
       num_load_cases |-> num,
       labels |-> IF with_labels THEN [c \in 1..n |-> CaseLabel(c)] ELSE None] :
        n \in 1..MaxReportColumns,
        sets \in SeqsUpTo(PropertySetPool, MaxReportCases) \ {<<>>},
        num \in 1..MaxReportColumns,
        with_labels \in BOOLEAN }

NoCall == [results |-> <<>>, expected_property_sets |-> <<>>, num_load_cases |-> 0,
           labels |-> None]

RepIdle(args) ==
    /\ call_args = args
    /\ call_result = NoReport
    /\ pc_rep = "idle"

InitReport ==
    /\ call_args \in CallArguments
    /\ call_result = NoReport
    /\ pc_rep = "start"

\* ResultsHandler.collect_expected_properties(results, expected_property_sets,
\* num_load_cases, labels)
CallCollectExpectedProperties ==
    /\ pc_rep = "start"
    /\ call_result' = collect_expected_properties(call_args.results,
                          call_args.expected_property_sets, call_args.num_load_cases,
                          call_args.labels)
    /\ pc_rep' = "returned"
    /\ UNCHANGED call_args
    /\ UNCHANGED notRepVars

NextReport == CallCollectExpectedProperties

-----------------------------------------------------------------------------
(* Properties of the macroscopic tensors and the report (under SpecRes)    *)

Coords(rr) == [k \in 1..4 |-> rr[k].coord]
Disps(rr) == [k \in 1..4 |-> rr[k].disp]
Forces(rr) == [k \in 1..4 |-> rr[k].force]

\* Offset of retained node k from node 0 along axis a (0-based)
Offset(rr, k, a) == FSub(rr[k + 1].coord[a + 1], rr[1].coord[a + 1])

\* Node k (k = 1..3) is offset from node 0 only along axis k-1
AxisAligned(rr) ==
    \A k \in 1..3 : \A a \in 0..2 : (Offset(rr, k, a) # Zero) <=> (a = k - 1)

EdgeLength(rr, a) == Offset(rr, a + 1, a)

ReplaceNode0(seq, v) == [seq EXCEPT ![1] = v]

Node0Disps == {rr[1].disp : rr \in RetainedResultSets} \cup {Vec(1, -1, 1, 1)}
Node0Forces == {rr[1].force : rr \in RetainedResultSets} \cup {Vec(1, -1, 1, 1)}

\* C8: for axis-aligned retained nodes with edge lengths L, the displacement
\* gradient of every processed load case has G[a][b] = disp of node b+1 in
\* component a, divided by L[b]; every summand entry that divides by a zero
\* relative coordinate is 0 and G holds no NaN or Infinity; replacing node 0's
\* displacement leaves G unchanged.
C8_DisplacementGradient ==
    \A c \in 1..Len(debug_results) :
        LET rr == debug_results[c].retained_results
            G == debug_results[c].displacement_gradient
        IN  AxisAligned(rr) =>
              /\ \A a, b \in 0..2 :
                    /\ At(G, a, b) = FDiv(rr[b + 2].disp[a + 1], EdgeLength(rr, b))
                    /\ IsFinite(At(G, a, b))
              /\ \A n \in 1..3 : \A a, b \in 0..2 :
                    (b # n - 1) =>
                        At(displacement_gradient_term(Coords(rr), Disps(rr), n), a, b) = Zero
              /\ \A d0 \in Node0Disps :
                    calculate_displacement_gradient(Coords(rr), ReplaceNode0(Disps(rr), d0)) = G

\* A box away from the origin, node 0 displaced, node 3 not: G[1][0] is
\* -3/100 over 2, G[0][1] is -6/100 over -4, the column of node 3 is zero.
C8_Witness ==
    /\ Len(debug_results) >= 1
    /\ LET rr == debug_results[1].retained_results
           G == debug_results[1].displacement_gradient
       IN  /\ AxisAligned(rr)
           /\ rr[1].coord = Vec(1, 1, 1, 1)
           /\ rr[1].disp = Vec(9, 9, 9, 100)
           /\ EdgeLength(rr, 1) = R(-4)
           /\ At(G, 1, 0) = Q(-3, 200)
           /\ At(G, 0, 1) = Q(3, 200)
           /\ At(G, 0, 2) = Zero

\* sum over k = 0..3 of r_k[a] * force_k[b]
MomentSum(rr, a, b) ==
    FAdd(FAdd(FAdd(FMul(Offset(rr, 0, a), rr[1].force[b + 1]),
                   FMul(Offset(rr, 1, a), rr[2].force[b + 1])),
              FMul(Offset(rr, 2, a), rr[3].force[b + 1])),
         FMul(Offset(rr, 3, a), rr[4].force[b + 1]))

\* C9: the macroscopic stress of every processed load case has
\* S[a][b] = (1/volume) * sum over the four retained nodes of r_k[a] * f_k[b];
\* replacing node 0's reaction force leaves S unchanged; for axis-aligned
\* retained nodes S[a][b] = L[a] * f_{a+1}[b] / volume.
C9_MacroStress ==
    \A c \in 1..Len(debug_results) :
        LET rr == debug_results[c].retained_results
            S == debug_results[c].macro_stress
        IN  /\ \A a, b \in 0..2 : At(S, a, b) = FMul(FRecip(volume), MomentSum(rr, a, b))
            /\ \A f0 \in Node0Forces :
                  calculate_macro_stress(Coords(rr), ReplaceNode0(Forces(rr), f0), volume) = S
            /\ AxisAligned(rr) =>
                  \A a, b \in 0..2 :
                      At(S, a, b) = FDiv(FMul(EdgeLength(rr, a), rr[a + 2].force[b + 1]), volume)

\* A box away from the origin with a reaction force on node 0, volume 1/2:
\* S[1][2] = -4 * 7 / (1/2), S[0][0] = 2 * 1 / (1/2).
C9_Witness ==
    /\ Len(debug_results) >= 1
    /\ volume = Q(1, 2)
    /\ LET rr == debug_results[1].retained_results
           S == debug_results[1].macro_stress
       IN  /\ AxisAligned(rr)
           /\ rr[1].coord = Vec(1, 1, 1, 1)
           /\ rr[1].force = Vec(5, -5, 5, 1)
           /\ At(S, 1, 2) = R(-56)
           /\ At(S, 0, 0) = R(4)

\* The property a label names, from the tensors of one load case
LabelValue(prop, tensors) ==
    LET a == CharInt(prop[2]) - 1
        b == CharInt(prop[3]) - 1
    IN  CASE prop[1] = "E" ->
               FDiv(At(tensors.macro_stress, a, a), At(tensors.macro_strain, a, a))
          [] prop[1] = "v" ->
               FDiv(FNeg(At(tensors.macro_strain, b, b)), At(tensors.macro_strain, a, a))
          [] prop[1] = "G" ->
               FDiv(At(tensors.macro_stress, b, a), At(tensors.displacement_gradient, b, a))

\* The labels requested for load case c
Requested(c) ==
    LET k == IF Len(expectedProperties) = 1 THEN 1 ELSE c
    IN  IF expectedProperties[k][1] = AllToken THEN Range(AVAILABLE_PROPERTIES)
        ELSE Range(expectedProperties[k])

\* C10: in the compiled report, the cell of every requested label and load
\* case c holds the property with the label's indices computed from load case
\* c's tensors: Eaa = stress[a,a]/strain[a,a], vab = -strain[b,b]/strain[a,a],
\* Gab = stress[b,a]/displacementGradient[b,a].
C10_ReportCells ==
    (pc_res = "done") =>
        /\ reportedProperties.ok
        /\ \A c \in 1..n_cases : \A prop \in Requested(c) :
              /\ prop \in Range(AVAILABLE_PROPERTIES)
              /\ <<prop, c>> \in DOMAIN reportedProperties.val.cells
              /\ reportedProperties.val.cells[<<prop, c>>] = LabelValue(prop, debug_results[c])

\* All fifteen labels reported for two load cases; in the second, G12 and G21
\* are finite and differ.
C10_Witness ==
    /\ pc_res = "done"
    /\ n_cases = 2
    /\ Requested(2) = Range(AVAILABLE_PROPERTIES)
    /\ reportedProperties.ok
    /\ LET g12 == reportedProperties.val.cells[<<Label("G","1","2"), 2>>]
           g21 == reportedProperties.val.cells[<<Label("G","2","1"), 2>>]
       IN  /\ IsFinite(g12) /\ IsFinite(g21) /\ g12 # g21
           /\ g12 = LabelValue(Label("G","1","2"), debug_results[2])

\* The twelve off-diagonal labels in the order the lists hold them
PairDigits == <<<<"1","2">>, <<"1","3">>, <<"2","1">>, <<"2","3">>, <<"3","1">>, <<"3","2">>>>

\* The entry of a stored property set that belongs to a label
StoredValue(results_set, prop) ==
    LET idx == SubSeq(prop, 2, 3)
    IN  CASE prop[1] = "E" -> results_set.elasticModuli[CharInt(prop[2])]
          [] prop[1] = "G" -> results_set.shearModuli[IndexOf(PairDigits, idx) + 1]
          [] prop[1] = "v" -> results_set.poissonsRatios[IndexOf(PairDigits, idx) + 1]

\* numerator / denominator of finite floats: NaN for 0/0, signed Infinity
\* for x/0
Quotient(n, d) ==
    IF d[1] = 0
    THEN (IF n[1] = 0 THEN NaN ELSE IF n[1] > 0 THEN <<1, 0>> ELSE <<-1, 0>>)
    ELSE Norm(n[1] * d[2], n[2] * d[1])

LabelNumerator(prop, tensors) ==
    LET a == CharInt(prop[2]) - 1
        b == CharInt(prop[3]) - 1
    IN  CASE prop[1] = "E" -> At(tensors.macro_stress, a, a)
          [] prop[1] = "v" -> <<-At(tensors.macro_strain, b, b)[1], At(tensors.macro_strain, b, b)[2]>>
          [] prop[1] = "G" -> At(tensors.macro_stress, b, a)

LabelDenominator(prop, tensors) ==
    LET a == CharInt(prop[2]) - 1
        b == CharInt(prop[3]) - 1
    IN  CASE prop[1] = "E" -> At(tensors.macro_strain, a, a)
          [] prop[1] = "v" -> At(tensors.macro_strain, a, a)
          [] prop[1] = "G" -> At(tensors.displacement_gradient, b, a)

\* C11: calculate_properties stores a complete property set for every load
\* case, zero denominators included: the entry of each label is the quotient,
\* NaN for 0/0 and signed Infinity for x/0, unchanged; in the report a cell
\* holds that entry only where the label was requested for the load case, and
\* is empty otherwise.
C11_NonFiniteKept ==
    /\ \A c \in 1..Len(results) :
          /\ Len(results[c].elasticModuli) = 3
          /\ Len(results[c].shearModuli) = 6
          /\ Len(results[c].poissonsRatios) = 6
          /\ \A prop \in Range(AVAILABLE_PROPERTIES) :
                StoredValue(results[c], prop)
                  = Quotient(LabelNumerator(prop, debug_results[c]),
                             LabelDenominator(prop, debug_results[c]))
    /\ (pc_res = "done") =>
          /\ reportedProperties.ok
          /\ \A cell \in DOMAIN reportedProperties.val.cells :
                cell[1] # LabelRow =>
                    reportedProperties.val.cells[cell] =
                        IF cell[1] \in Requested(cell[2])
                        THEN StoredValue(results[cell[2]], cell[1])
                        ELSE NaN

\* Node 3 does not move in either load case: v31 = -strain[0,0]/0 is -Infinity
\* in both property sets and E33 = 0/0 is NaN; v31 is requested for load case 1
\* only and reaches the report there, not in load case 2.
C11_Witness ==
    /\ pc_res = "done"
    /\ n_cases = 2
    /\ reportedProperties.ok
    /\ \A c \in 1..2 :
          /\ LabelDenominator(Label("v","3","1"), debug_results[c]) = Zero
          /\ StoredValue(results[c], Label("v","3","1")) = <<-1, 0>>
          /\ StoredValue(results[c], Label("E","3","3")) = NaN
    /\ Label("v","3","1") \in Requested(1) \ Requested(2)
    /\ reportedProperties.val.cells[<<Label("v","3","1"), 1>>] = <<-1, 0>>
    /\ reportedProperties.val.cells[<<Label("v","3","1"), 2>>] = NaN

\* C13: with exactly one expected-label-set and N > 1 load cases, every label
\* of the set (the 15 labels for 'all') has in every load case c of 1..N a
\* cell that holds load case c's stored value for the label.
C13_Broadcast ==
    (pc_res = "done" /\ Len(expectedProperties) = 1 /\ n_cases > 1) =>
        /\ reportedProperties.ok
        /\ reportedProperties.val.columns = [c \in 1..n_cases |-> c]
        /\ \A c \in 1..n_cases :
              \A prop \in (IF expectedProperties[1][1] = AllToken
                           THEN Range(AVAILABLE_PROPERTIES)
                           ELSE Range(expectedProperties[1])) :
                  /\ <<prop, c>> \in DOMAIN reportedProperties.val.cells
                  /\ reportedProperties.val.cells[<<prop, c>>] = StoredValue(results[c], prop)

\* One set {E11, v12, v31, G21} for two load cases with different solver
\* results: G21 is filled in both columns, with different finite values.
C13_Witness ==
    /\ pc_res = "done"
    /\ n_cases = 2
    /\ expectedProperties = <<CaseProperties(1)>>
    /\ reportedProperties.ok
    /\ LET g1 == reportedProperties.val.cells[<<Label("G","2","1"), 1>>]
           g2 == reportedProperties.val.cells[<<Label("G","2","1"), 2>>]
       IN  /\ IsFinite(g1) /\ IsFinite(g2) /\ g1 # g2
           /\ g2 = StoredValue(results[2], Label("G","2","1"))

-----------------------------------------------------------------------------
(* Properties of report compilation (checked under SpecReport)             *)

AllSpellings ==
    {<<a, l1, l2>> : a \in {"a", "A"}, l1 \in {"l", "L"}, l2 \in {"l", "L"}}

IsSoleAll(prop_set) == Len(prop_set) = 1 /\ prop_set[1] \in AllSpellings

\* The label-set that governs load case c of a call: the c-th given set, the
\* single given set for every load case; none beyond the given sets
GoverningSet(args, c) ==
    IF Len(args.expected_property_sets) = 1 /\ args.num_load_cases > 1
    THEN args.expected_property_sets[1]
    ELSE IF c <= Len(args.expected_property_sets) THEN args.expected_property_sets[c]
    ELSE <<>>

\* C14: a label-set whose sole entry is 'all' in any letter case stands for
\* exactly the 15 labels: in its load case's column each of the 15 rows holds
\* the load case's value and every other property row is empty.
C14_AllExpanded ==
    (pc_rep = "returned" /\ call_args.num_load_cases = Len(call_args.results)) =>
        \A c \in 1..Len(call_args.results) :
            IsSoleAll(GoverningSet(call_args, c)) =>
                /\ call_result.ok
                /\ Range(AVAILABLE_PROPERTIES) \subseteq Range(call_result.val.index)
                /\ Cardinality(Range(AVAILABLE_PROPERTIES)) = 15
                /\ \A k \in 1..Len(call_result.val.index) :
                      LET row == call_result.val.index[k]
                      IN  row # LabelRow =>
                            call_result.val.cells[<<row, c>>] =
                                IF row \in Range(AVAILABLE_PROPERTIES)
                                THEN StoredValue(call_args.results[c], row)
                                ELSE NaN

\* 'ALL' for load case 1 and {G11, E22} for load case 2: column 1 holds the
\* fifteen values (G13 among them) and nothing in row G11.
C14_Witness ==
    /\ pc_rep = "returned"
    /\ call_args.expected_property_sets = <<<<AllUpper>>, <<Label("G","1","1"), Label("E","2","2")>>>>
    /\ call_args.num_load_cases = 2
    /\ call_result.ok
    /\ call_result.val.cells[<<Label("G","1","3"), 1>>]
         = StoredValue(call_args.results[1], Label("G","1","3"))
    /\ IsFinite(call_result.val.cells[<<Label("G","1","3"), 1>>])
    /\ call_result.val.cells[<<Label("G","1","1"), 1>>] = NaN
    /\ call_result.val.cells[<<Label("G","1","2"), 2>>] = NaN

DiagonalLabels ==
    {<<k, d, d>> : k \in {"G", "v"}, d \in {"1", "2", "3"}}

\* C15: a call in which some load case's label-set contains a diagonal shear
\* or Poisson label raises an error, and no table ever holds a value under
\* such a label.
C15_DiagonalRejected ==
    (/\ pc_rep = "returned"
     /\ \E k \in 1..Len(call_args.expected_property_sets) :
           Range(call_args.expected_property_sets[k]) \cap DiagonalLabels # {}) =>
        /\ ~call_result.ok
        /\ call_result.err \in {"AssertionError", "KeyError", "ValueError"}

\* The labels a given label-set stands for
Expanded(prop_set) ==
    IF prop_set # <<>> /\ prop_set[1] \in AllSpellings THEN Range(AVAILABLE_PROPERTIES)
    ELSE Range(prop_set)

\* Sort key of a label: E before G before v, then the two digits
LabelKey(prop) ==
    (CASE prop[1] = "E" -> 100 [] prop[1] = "G" -> 200 [] prop[1] = "v" -> 300)
      + 10 * CharInt(prop[2]) + CharInt(prop[3])

-----------------------------------------------------------------------------
(* TestCaseSkeleton: one case of main()                                     *)

\* np.hstack(self.loading.expectedProperties)
RECURSIVE hstack(_)
hstack(sets) == IF sets = <<>> THEN <<>> ELSE Head(sets) \o hstack(Tail(sets))

Count(seq, x) == Cardinality({k \in 1..Len(seq) : seq[k] = x})

\* np.unique(np.hstack(expectedProperties), return_counts=True): the sorted
\* distinct labels of the sets as the user wrote them, and how often each occurs
unique_expected_properties(sets) ==
    LET flat == hstack(sets)
        names == unique(Range(flat))
    IN  <<names, [k \in 1..Len(names) |-> Count(flat, names[k])]>>

all_same(items) == \A k \in 1..Len(items) : items[k] = items[1]

\* "fake" isotropic materials must obey Hooke's law
ObeysHooke(mat) ==
    (mat.materialType = "orthotropic"
       /\ all_same(mat.elasticModuli) /\ all_same(mat.shearModuli)
       /\ all_same(mat.poissonsRatios)) =>
        mat.shearModuli[1]
            = FDiv(mat.elasticModuli[1], FMul(R(2), FAdd(R(1), mat.poissonsRatios[1])))

forbidden_props ==
    { Label("E","1","2"), Label("E","1","3"), Label("E","2","1"), Label("E","2","3"),
      Label("E","3","1"), Label("E","3","2"),
      Label("G","1","1"), Label("G","2","2"), Label("G","3","3"),
      Label("v","1","1"), Label("v","2","2"), Label("v","3","3") }

CheckFailed(check, detail) ==
    [ok |-> FALSE, err |-> "AssertionError", check |-> check, detail |-> detail]

CheckPassed == [ok |-> TRUE, err |-> "none", check |-> "none", detail |-> <<>>]

NotChecked == [ok |-> FALSE, err |-> "not called", check |-> "none", detail |-> <<>>]

HasDuplicates(prop_set) == Len(prop_set) # Cardinality(Range(prop_set))

FirstDuplicate(sets) ==
    LET dup == {i \in 1..Len(sets) : HasDuplicates(sets[i])}
    IN  CHOOSE i \in dup : \A j \in dup : i <= j

check_duplicates_zero_based(sets) ==
    IF \E i \in 1..Len(sets) : HasDuplicates(sets[i])
    THEN CheckFailed("duplicates", FirstDuplicate(sets) - 1)
    ELSE CheckPassed

\* "for i, prop_set in enumerate(...)": the assertion fails at the first set
\* with a repeated label and names load case i + 1
check_duplicates(sets) ==
    IF \E i \in 1..Len(sets) : HasDuplicates(sets[i])
    THEN CheckFailed("duplicates", FirstDuplicate(sets))
    ELSE CheckPassed

\* check_parameters: the first failing assertion, in the order of the code
check_parameters(files_found, mats, lbls, num, sets) ==
    LET bad == {k \in 1..Len(mats) : ~ObeysHooke(mats[k])}
        names == unique_expected_properties(sets)[1]
        bad_props == SelectSeq(names, LAMBDA prop : prop \in forbidden_props)
    IN  IF ~files_found THEN CheckFailed("mesh files", <<>>)
        ELSE IF bad # {}
        THEN CheckFailed("materials", CHOOSE k \in bad : \A j \in bad : k <= j)
        ELSE IF lbls # None /\ Len(lbls) # num THEN CheckFailed("labels", Len(lbls))
        ELSE IF bad_props # <<>> THEN CheckFailed("impossible", bad_props)
        ELSE check_duplicates(sets)

\* collapsed_column = reportedProperties.bfill(axis=1).iloc[:, 0]: per row the
\* first cell, left to right, that is not NaN
RECURSIVE bfill_first(_, _, _)
bfill_first(table, row, k) ==
    IF k > Len(table.columns) THEN NaN
    ELSE LET cell == table.cells[row, table.columns[k]]
         IN  IF row = LabelRow THEN cell
             ELSE IF ~IsNaN(cell) THEN cell
             ELSE bfill_first(table, row, k + 1)

\* compress_results: <<return value, reportedProperties afterwards>>.  The
\* collapsed column gets the entry "Label" = "Full" and is inserted at
\* position 0 under the name 0; insert aligns it to the rows of the frame.
compress_results(table, sets) ==
    LET counts == unique_expected_properties(sets)[2]
        rows == Range(table.index)
        collapsed == [row \in rows \cup {LabelRow} |->
                         IF row = LabelRow THEN "Full" ELSE bfill_first(table, row, 1)]
    IN  IF \A k \in 1..Len(counts) : counts[k] = 1
        THEN <<TRUE,
               [index |-> table.index,
                columns |-> <<0>> \o table.columns,
                cells |-> [cell \in rows \X ({0} \cup Range(table.columns)) |->
                              IF cell[2] = 0 THEN collapsed[cell[1]]
                              ELSE table.cells[cell]]]>>
        ELSE <<FALSE, table>>

\* ---- Inputs of a case

MaxCases == 2

E11 == Label("E","1","1")
E22 == Label("E","2","2")

\* One load case's request: everything, a single modulus, a repeated label,
\* an impossible label, four labels
CasePropertySets ==
    { <<AllLower>>, <<E11>>, <<E22>>, <<E11, Label("v","1","2"), E11>>,
      <<Label("G","1","1"), E22>>, CaseProperties(2) }

Material(type, E, G, v) ==
    [materialType |-> type, elasticModuli |-> E, shearModuli |-> G,
     poissonsRatios |-> v]

\* An isotropic material; an orthotropic one with equal entries that obeys
\* G = E / (2 (1 + v)); one that does not
MaterialSets ==
    { <<Material("isotropic", <<R(200)>>, <<R(70)>>, <<Q(1, 4)>>)>>,
      <<Material("orthotropic", <<R(200), R(200), R(200)>>, <<R(80), R(80), R(80)>>,
                 <<Q(1, 4), Q(1, 4), Q(1, 4)>>)>>,
      <<Material("orthotropic", <<R(200), R(200), R(200)>>, <<R(70), R(70), R(70)>>,
                 <<Q(1, 4), Q(1, 4), Q(1, 4)>>)>> }

\* No labels, one per load case, one too many
CaseLabelSets(n) ==
    {None, [c \in 1..n |-> CaseLabel(c)], [c \in 1..(n + 1) |-> CaseLabel(c)]}

CaseIdle(mats) ==
    /\ mesh_files_found = TRUE
    /\ materials = mats
    /\ check_result = NotChecked
    /\ finished_with = NoReport
    /\ compress_ret = None
    /\ pc_case = "idle"

\* A case as main() builds it from an input file
InitCase ==
    /\ n_cases \in 1..MaxCases
    /\ volume = R(40)
    /\ expectedProperties \in SeqsUpTo(CasePropertySets, MaxCases)
    /\ labels \in CaseLabelSets(n_cases)
    /\ load_case = 0
    /\ retained_results = <<>>
    /\ results = <<>>
    /\ debug_results = <<>>
    /\ reportedProperties = NoReport
    /\ pc_res = "idle"
    /\ mesh_files_found \in BOOLEAN
    /\ materials \in MaterialSets
    /\ check_result = NotChecked
    /\ finished_with = NoReport
    /\ compress_ret = None
    /\ pc_case = "start"

\* case.check_parameters(); an AssertionError ends main()
CheckParameters ==
    /\ pc_case = "start"
    /\ check_result' = check_parameters(mesh_files_found, materials, labels, n_cases,
                                        expectedProperties)
    /\ pc_case' = IF check_result'.ok THEN "checked" ELSE "rejected"
    /\ UNCHANGED <<mesh_files_found, materials, finished_with, compress_ret>>
    /\ UNCHANGED resVars
    /\ UNCHANGED notCaseVars

\* case.run_tests(): testrunner.run() delivers one property set per load
\* case and the compiled table, which is logged and then compressed
RunTests ==
    /\ pc_case = "checked"
    /\ \E first \in {1, 2} :
          results' = [c \in 1..n_cases |-> CaseResults(c + first - 1)]
    /\ load_case' = n_cases + 1
    /\ finished_with' =
           collect_expected_properties(results', expectedProperties, n_cases, labels)
    /\ IF finished_with'.ok
       THEN LET compressed == compress_results(finished_with'.val, expectedProperties)
            IN  /\ compress_ret' = compressed[1]
                /\ reportedProperties' = Ok(compressed[2])
                /\ pc_case' = "finished"
       ELSE /\ compress_ret' = None
            /\ reportedProperties' = finished_with'
            /\ pc_case' = "failed"
    /\ UNCHANGED <<mesh_files_found, materials, check_result>>
    /\ UNCHANGED <<n_cases, volume, expectedProperties, labels, retained_results,
                   debug_results, pc_res>>
    /\ UNCHANGED notCaseVars

NextCase == CheckParameters \/ RunTests

-----------------------------------------------------------------------------
(* Properties of a whole case (checked under SpecCase)                      *)

DuplicateCases == {i \in 1..Len(expectedProperties) : HasDuplicates(expectedProperties[i])}

NoTable == finished_with = NoReport /\ reportedProperties = NoReport

EarlierChecksPass ==
    /\ mesh_files_found
    /\ \A k \in 1..Len(materials) : ObeysHooke(materials[k])
    /\ labels = None \/ Len(labels) = n_cases
    /\ \A i \in 1..Len(expectedProperties) :
          Range(expectedProperties[i]) \cap forbidden_props = {}

CaseArgs == [expected_property_sets |-> expectedProperties, num_load_cases |-> n_cases]

\* The load-case columns of the table in which a label is filled
FilledIn(prop) ==
    {c \in 1..n_cases : prop \in Expanded(GoverningSet(CaseArgs, c))}

PropertyRows(table) == Range(table.index) \ {LabelRow}

\* C18: if every requested label occurs in exactly one load case of the
\* table, compress_results returns True and adds exactly one column, placed
\* first and marked 'Full', whose value in each property row is the single
\* non-empty value of that row; the load-case columns are unchanged.
C18_CompressedFull ==
    (pc_case = "finished"
       /\ \A prop \in PropertyRows(finished_with.val) : Cardinality(FilledIn(prop)) = 1) =>
        LET before == finished_with.val
            after == reportedProperties.val
        IN  /\ compress_ret = TRUE
            /\ after.index = before.index
            /\ Len(after.columns) = Len(before.columns) + 1
            /\ Tail(after.columns) = before.columns
            /\ after.columns[1] \notin Range(before.columns)
            /\ <<LabelRow, after.columns[1]>> \in DOMAIN after.cells
            /\ after.cells[<<LabelRow, after.columns[1]>>] = "Full"
            /\ \A prop \in PropertyRows(before) :
                  \A c \in FilledIn(prop) :
                      after.cells[<<prop, after.columns[1]>>] = before.cells[<<prop, c>>]
            /\ \A cell \in DOMAIN before.cells : after.cells[cell] = before.cells[cell]

\* Some label is filled in more than one load-case column
FilledTwice(table) ==
    \E prop \in PropertyRows(table) : Cardinality(FilledIn(prop)) > 1

\* C19: if some requested label is filled in more than one load-case column
\* (listed in several label-sets, a single label-set broadcast to several
\* load cases, or 'all'), compress_results returns False and leaves the
\* table unchanged: no 'Full' column is added.
C19_NotCompressed ==
    (pc_case = "finished" /\ FilledTwice(finished_with.val)) =>
        /\ compress_ret = FALSE
        /\ reportedProperties = finished_with

-----------------------------------------------------------------------------
(* TestRunner.run_test_sequence: the load-case loop                         *)

\* TestRunner.solve: /SOLU, allsel, solve
solve == <<Cmd("run", 0, "/SOLU", Zero), Cmd("allsel", 0, "", Zero),
           Cmd("solve", 0, "", Zero)>>

RunIdle(log) ==
    /\ history = log
    /\ solved = <<>>
    /\ pc_run = "idle"

\* State on entry to run_test_sequence: a prepared mesh, no constraint set
InitRun ==
    /\ \E su \in Setups :
          /\ lengths = su[3]
          /\ \/ \E d \in DirectionCodes :
                   loading = DirectionSpec(<<d>>, su[1], su[2])
             \/ loading \in TensorSpecs \cup OtherSpecs
    /\ retained_nodes \in RetainedNodeSets
    /\ prepared = NoResult
    /\ lh = NoResult
    /\ ansys_log = <<>>
    /\ applied = NoTensor
    /\ disp_bc = NoConstraints(retained_nodes)
    /\ converted = [direction |-> <<>>, res |-> NoResult]
    /\ pc_load = "idle"
    /\ n_cases = 0
    /\ volume = R(40)
    /\ expectedProperties = <<<<AllToken>>>>
    /\ labels = None
    /\ load_case = 0
    /\ retained_results = <<>>
    /\ results = <<>>
    /\ debug_results = <<>>
    /\ reportedProperties = NoReport
    /\ pc_res = "idle"
    /\ history = <<>>
    /\ solved = <<>>
    /\ pc_run = "start"

\* ResultsHandler(self), LoadingHandler(self), and the loop header: the
\* sequence ends here when a constructor or num_load_cases raises
BeginSequence ==
    /\ pc_run = "start"
    /\ lh' = LoadingHandler_init(loading, lengths)
    /\ IF lh'.ok /\ num_load_cases(loading).ok
       THEN /\ n_cases' = num_load_cases(loading).val
            /\ load_case' = 1
            /\ pc_run' = IF n_cases' >= 1 THEN "apply" ELSE "compile"
       ELSE /\ UNCHANGED <<n_cases, load_case>>
            /\ pc_run' = "failed"
    /\ UNCHANGED <<loading, lengths, prepared, ansys_log, applied, disp_bc, converted,
                   retained_nodes, pc_load>>
    /\ UNCHANGED <<volume, expectedProperties, labels, retained_results, results,
                   debug_results, reportedProperties, pc_res>>
    /\ UNCHANGED <<history, solved>>
    /\ UNCHANGED notRunVars

\* clear_results(); apply_strain_tensor(tensors[load_case - 1])
ApplyLoadCase ==
    /\ pc_run = "apply"
    /\ applied' = lh.val[load_case]
    /\ ansys_log' = apply_strain_tensor(lh.val[load_case], retained_nodes, lengths)
    /\ disp_bc' = ExecCmds(disp_bc, ansys_log')
    /\ history' = history \o ansys_log'
    /\ retained_results' = <<>>
    /\ pc_run' = "solve"
    /\ UNCHANGED <<loading, lengths, prepared, lh, converted, retained_nodes, pc_load>>
    /\ UNCHANGED <<n_cases, volume, expectedProperties, labels, load_case, results,
                   debug_results, reportedProperties, pc_res>>
    /\ UNCHANGED solved
    /\ UNCHANGED notRunVars

\* self.solve() under the constraints then set
Solve ==
    /\ pc_run = "solve"
    /\ history' = history \o solve
    /\ solved' = Append(solved, [load_case |-> load_case, disp_bc |-> disp_bc])
    /\ pc_run' = "results"
    /\ UNCHANGED loadVars
    /\ UNCHANGED resVars
    /\ UNCHANGED notRunVars

\* extract_raw_results(); calculate_properties(load_case); next iteration
ProcessResults ==
    /\ pc_run = "results"
    /\ retained_results' = CaseRetained(load_case)
    /\ LET tensors == calculate_macro_tensors(retained_results', volume)
       IN  /\ debug_results' = Append(debug_results, tensors)
           /\ results' = dict_store(results, load_case, calculate_properties(tensors))
    /\ load_case' = load_case + 1
    /\ pc_run' = IF load_case < n_cases THEN "apply" ELSE "compile"
    /\ UNCHANGED <<n_cases, volume, expectedProperties, labels, reportedProperties,
                   pc_res>>
    /\ UNCHANGED loadVars
    /\ UNCHANGED <<history, solved>>
    /\ UNCHANGED notRunVars

\* return ResultsHandler.compile_results(...)
ReturnCompiled ==
    /\ pc_run = "compile"
    /\ reportedProperties' =
           collect_expected_properties(results, expectedProperties, n_cases, labels)
    /\ pc_run' = "done"
    /\ UNCHANGED <<n_cases, volume, expectedProperties, labels, load_case,
                   retained_results, results, debug_results, pc_res>>
    /\ UNCHANGED loadVars
    /\ UNCHANGED <<history, solved>>
    /\ UNCHANGED notRunVars

NextRun ==
    \/ BeginSequence
    \/ ApplyLoadCase
    \/ Solve
    \/ ProcessResults
    \/ ReturnCompiled

-----------------------------------------------------------------------------
(* Properties of the load-case loop (checked under SpecRun)                 *)

SolvesUpTo(p) == Cardinality({i \in 1..p : history[i].cmd = "solve"})

\* Position in history of the k-th solve
NthSolve(k) ==
    CHOOSE p \in 1..Len(history) : history[p].cmd = "solve" /\ SolvesUpTo(p) = k

\* The constraints tensor prescribes: entry (i, c), unless null, moves
\* retained node i + 1 along axis c by strain times the i-th edge length;
\* retained node 0 is fixed in every direction
TensorConstraints(tensor) ==
    [x \in DOMAIN NoConstraints(retained_nodes) |->
        IF x[1] = retained_nodes[1] THEN Zero
        ELSE LET i == CHOOSE i \in 0..2 : retained_nodes[i + 2] = x[1]
                 c == CHOOSE c \in 0..2 : DISP_AXES[c + 1] = x[2]
             IN  IF At(tensor, i, c) = Null THEN Null
                 ELSE FMul(At(tensor, i, c), lengths[i + 1])]

\* C20: run_test_sequence handles the load cases one after another in the
\* order 1..N; in each load case the constraints of the previous one are
\* deleted before any constraint of the current tensor is applied and before
\* the solve; at each solve the active displacement constraints are exactly
\* those of the current load case's tensor plus the full fixing of retained
\* node 0.
C20_SequentialLoadCases ==
    /\ Len(solved) <= n_cases
    /\ pc_run \in {"apply", "solve"} => Len(solved) = load_case - 1
    /\ pc_run = "results" => Len(solved) = load_case
    /\ pc_run \in {"compile", "done"} => Len(solved) = n_cases /\ Len(results) = n_cases
    /\ SolvesUpTo(Len(history)) = Len(solved)
    /\ \A k \in 1..Len(solved) :
          LET s == NthSolve(k)
              prev == IF k = 1 THEN 0 ELSE NthSolve(k - 1)
              dele == {p \in (prev + 1)..(s - 1) : history[p].cmd = "ddele"}
              sets == {p \in (prev + 1)..(s - 1) : history[p].cmd = "d"}
          IN  /\ solved[k].load_case = k
              /\ Cardinality(dele) = 1
              /\ \A p \in dele : history[p].lab = "ALL" /\ \A q \in sets : p < q
              /\ \A q \in sets :
                    \A l \in {"UX", "UY", "UZ"} :
                        (history[q].lab \in {l, "ALL"}) =>
                            history[q].value = TensorConstraints(lh.val[k])[history[q].node, l]
              /\ solved[k].disp_bc = TensorConstraints(lh.val[k])

\* Two load cases solved; a degree of freedom the first tensor constrains is
\* free at the second solve
C20_Witness ==
    /\ pc_run = "done"
    /\ n_cases = 2
    /\ Len(solved) = 2
    /\ \E x \in DOMAIN solved[1].disp_bc :
          solved[1].disp_bc[x] # Null /\ solved[2].disp_bc[x] = Null

-----------------------------------------------------------------------------
(* Properties of the accumulated results (checked under SpecRes)            *)

\* Load cases whose properties have been stored
Processed ==
    IF pc_res \in {"extract", "calculate"} THEN load_case - 1 ELSE n_cases

\* C21: after k load cases have been processed the property map holds
\* exactly the keys 1..k; the entry of load case k is computed from the
\* nodal results extracted in load case k; storing it changes no entry of an
\* earlier load case; the report table is compiled once, after all N load
\* cases, from a map of exactly N entries.
C21_MapAccumulates ==
    /\ [](DOMAIN results = 1..Processed)
    /\ [](reportedProperties # NoReport => pc_res = "done" /\ DOMAIN results = 1..n_cases)
    /\ [][/\ retained_results' # retained_results =>
                (pc_res = "extract" /\ pc_res' = "calculate" /\ load_case' = load_case)
          /\ results' # results =>
                /\ pc_res = "calculate"
                /\ DOMAIN results' = 1..load_case
                /\ \A j \in 1..(load_case - 1) : results'[j] = results[j]
                /\ results'[load_case] =
                       calculate_properties(calculate_macro_tensors(retained_results, volume))
          /\ reportedProperties' # reportedProperties =>
                /\ reportedProperties = NoReport
                /\ pc_res = "compile" /\ DOMAIN results = 1..n_cases
                /\ results' = results]_vars

\* Two load cases with different nodal results, stored under 1 and 2, and a
\* table compiled from both
C21_Witness ==
    /\ pc_res = "done"
    /\ n_cases = 2
    /\ DOMAIN results = {1, 2}
    /\ results[1] # results[2]
    /\ reportedProperties.ok

-----------------------------------------------------------------------------
(* RecursiveClassFactory.create_class                                       *)

\* The flags a constructor call leaves behind: for every keyword that is a
\* required name, arg_filled[required_args.index(key)] = True
fill(filled, required, kw) ==
    [k \in 1..Len(required) |->
        filled[k] \/ (required[k] \in kw /\ IndexOf(required, required[k]) = k - 1)]

\* all(arg_filled)
all(flags) == \A k \in 1..Len(flags) : flags[k]

\* ---- Inputs of the factory model

MaxCalls == 3

ArgNames == {"caseId", "mesh", "path", "notes"}

RequiredArgs ==
    { <<>>, <<"path">>, <<"caseId", "path">>, <<"caseId", "mesh", "path">>,
      <<"path", "caseId", "path">> }

NoKwargs == {}

FacIdle(req) ==
    /\ required_args = req
    /\ arg_filled = [k \in 1..Len(req) |-> FALSE]
    /\ kwargs = NoKwargs
    /\ raised = "none"
    /\ attrs = {}
    /\ calls = 0

\* create_class(name, required_args, BaseClass): arg_filled = [False] * len
InitFactory ==
    /\ required_args \in RequiredArgs
    /\ arg_filled = [k \in 1..Len(required_args) |-> FALSE]
    /\ kwargs = NoKwargs
    /\ raised = "none"
    /\ attrs = {}
    /\ calls = 0

\* One call Class(**kw) of the created class's __init__
Construct ==
    /\ calls < MaxCalls
    /\ \E kw \in SUBSET ArgNames :
          /\ kwargs' = kw
          /\ arg_filled' = fill(arg_filled, required_args, kw)
          /\ IF ~all(arg_filled')
             THEN raised' = "ValueError" /\ attrs' = {}
             ELSE raised' = "none" /\ attrs' = kw
    /\ calls' = calls + 1
    /\ UNCHANGED required_args
    /\ UNCHANGED notFacVars

NextFactory == Construct

-----------------------------------------------------------------------------
(* Properties of the created class (checked under SpecFactory)              *)

\* C22: every constructor call whose keyword arguments do not include every
\* required name raises ValueError and sets no attribute, whatever calls
\* were made on the class before.
C22_MissingArgumentRaises ==
    (calls > 0 /\ ~(Range(required_args) \subseteq kwargs)) =>
        raised = "ValueError" /\ attrs = {}

-----------------------------------------------------------------------------
(* TestRunner.run: the test process inside "with AnsysContainer(...)"       *)

MaxSessionCases == 2

SesIdle(log) ==
    /\ session_cases = 0
    /\ instance = "none"
    /\ session_log = log
    /\ session_case = 0
    /\ error = "none"
    /\ pc_ses = "idle"

InitSession ==
    /\ session_cases \in 0..MaxSessionCases
    /\ instance = "none"
    /\ session_log = <<>>
    /\ session_case = 0
    /\ error = "none"
    /\ pc_ses = "enter"

exit_runs_unless_raised(ended) == ended = "finished"

\* The with statement: __exit__ runs however the block is left, by its last
\* statement or by an exception
exit_runs(ended) == ended \in {"finished", "raised"}

\* A step of the with block: it issues cmds and goes on to next, or raises
\* after issuing some of them
BlockStep(step, cmds, next) ==
    /\ pc_ses = step
    /\ \/ /\ session_log' = session_log \o cmds
          /\ pc_ses' = next
          /\ error' = error
       \/ \E issued \in 0..Len(cmds) :
             /\ session_log' = session_log \o SubSeq(cmds, 1, issued)
             /\ pc_ses' = "raised"
             /\ error' = step

\* AnsysContainer.__enter__: launch_mapdl returns the instance or raises
EnterContainer ==
    /\ pc_ses = "enter"
    /\ \/ /\ instance' = "running"
          /\ session_log' = Append(session_log, "launch")
          /\ pc_ses' = "setup"
          /\ error' = error
       \/ /\ instance' = instance
          /\ session_log' = session_log
          /\ pc_ses' = "propagated"
          /\ error' = "launch"
    /\ UNCHANGED <<session_cases, session_case>>
    /\ UNCHANGED notSesVars

\* rst_path = Path(ansys._result_file); ansys.finish(); ansys.run("/CLEAR")
SetUpSession ==
    /\ BlockStep("setup", <<"finish", "/CLEAR">>, "mesh")
    /\ UNCHANGED <<session_cases, instance, session_case>>
    /\ UNCHANGED notSesVars

\* prepare_mesh up to get_retained_nodes
PrepareMesh ==
    /\ BlockStep("mesh", <<"load mesh", "define materials", "get retained nodes">>, "pbc")
    /\ UNCHANGED <<session_cases, instance, session_case>>
    /\ UNCHANGED notSesVars

\* PBCHandler(self).apply_periodic_conditions()
ApplyPeriodicity ==
    /\ BlockStep("pbc", <<"ce">>, "handlers")
    /\ UNCHANGED <<session_cases, instance, session_case>>
    /\ UNCHANGED notSesVars

\* run_test_sequence: ResultsHandler(self), LoadingHandler(self), loop header
ConstructHandlers ==
    /\ BlockStep("handlers", <<>>, IF session_cases >= 1 THEN "load" ELSE "compile")
    /\ session_case' = 1
    /\ UNCHANGED <<session_cases, instance>>
    /\ UNCHANGED notSesVars

\* clear_results(); apply_strain_tensor(...)
LoadSessionCase ==
    /\ BlockStep("load", <<"finish", "ddele", "d">>, "solve")
    /\ UNCHANGED <<session_cases, instance, session_case>>
    /\ UNCHANGED notSesVars

\* self.solve()
SolveSessionCase ==
    /\ BlockStep("solve", <<"solve">>, "results")
    /\ UNCHANGED <<session_cases, instance, session_case>>
    /\ UNCHANGED notSesVars

\* extract_raw_results(); calculate_properties(load_case)
ProcessSessionCase ==
    /\ BlockStep("results", <<"finish", "post1">>,
                 IF session_case < session_cases THEN "load" ELSE "compile")
    /\ session_case' = session_case + 1
    /\ UNCHANGED <<session_cases, instance>>
    /\ UNCHANGED notSesVars

\* compile_results(...), the last statement of the block
CompileSession ==
    /\ BlockStep("compile", <<>>, "finished")
    /\ UNCHANGED <<session_cases, instance, session_case>>
    /\ UNCHANGED notSesVars

\* Leaving the with block: AnsysContainer.__exit__ calls self.ansys.exit();
\* an exception goes on propagating, otherwise run returns the results
ExitContainer ==
    /\ pc_ses \in {"finished", "raised"}
    /\ IF exit_runs(pc_ses)
       THEN /\ instance' = "exited"
            /\ session_log' = Append(session_log, "exit")
       ELSE UNCHANGED <<instance, session_log>>
    /\ pc_ses' = IF pc_ses = "raised" THEN "propagated" ELSE "returned"
    /\ UNCHANGED <<session_cases, session_case, error>>
    /\ UNCHANGED notSesVars

NextSession ==
    \/ EnterContainer
    \/ SetUpSession
    \/ PrepareMesh
    \/ ApplyPeriodicity
    \/ ConstructHandlers
    \/ LoadSessionCase
    \/ SolveSessionCase
    \/ ProcessSessionCase
    \/ CompileSession
    \/ ExitContainer

-----------------------------------------------------------------------------
(* Properties of the Ansys session (checked under SpecSession)              *)

Exits == {k \in 1..Len(session_log) : session_log[k] = "exit"}

-----------------------------------------------------------------------------
(* utils.definitely_delete_file                                             *)

MaxWait == 3

NotReturned == [kind |-> "none", value |-> <<>>]
Returned(v) == [kind |-> "returned", value |-> v]
Raised(e) == [kind |-> "raised", value |-> e]

DelIdle(log) ==
    /\ missing_ok = FALSE
    /\ max_wait = 0
    /\ warn_on_fail = FALSE
    /\ return_waited = FALSE
    /\ present = FALSE
    /\ checks = log
    /\ waited = 0
    /\ deleted = FALSE
    /\ del_result = NotReturned
    /\ pc_del = "idle"

\* A call definitely_delete_file(path, missing_ok, max_wait, return_waited,
\* warn_on_fail) on a file that exists or not
InitDelete ==
    /\ missing_ok \in BOOLEAN
    /\ max_wait \in 0..MaxWait
    /\ warn_on_fail \in BOOLEAN
    /\ return_waited \in BOOLEAN
    /\ present \in BOOLEAN
    /\ checks = <<>>
    /\ waited = 0
    /\ deleted = FALSE
    /\ del_result = NotReturned
    /\ pc_del = "unlink"

\* path.unlink(missing_ok=missing_ok): FileNotFoundError for a missing file
\* unless missing_ok; any other error of the file system is re-raised too
Unlink ==
    /\ pc_del = "unlink"
    /\ \/ /\ ~present /\ ~missing_ok
          /\ del_result' = Raised("FileNotFoundError")
          /\ pc_del' = "raised"
       \/ /\ present
          /\ del_result' = Raised("PermissionError")
          /\ pc_del' = "raised"
       \/ /\ present \/ missing_ok
          /\ del_result' = del_result
          /\ pc_del' = "loop"
    /\ UNCHANGED <<missing_ok, max_wait, warn_on_fail, return_waited, present, checks,
                   waited, deleted>>
    /\ UNCHANGED notDelVars

loop_continues_inclusive(w, limit) == w <= limit

\* "while waited < max_wait"
loop_continues(w, limit) == w < limit

\* One pass of the loop: path.exists() is true, sleep one second and count it
PollExists ==
    /\ pc_del = "loop"
    /\ loop_continues(waited, max_wait)
    /\ checks' = Append(checks, TRUE)
    /\ waited' = waited + 1
    /\ UNCHANGED <<missing_ok, max_wait, warn_on_fail, return_waited, present, deleted,
                   del_result, pc_del>>
    /\ UNCHANGED notDelVars

\* One pass of the loop: path.exists() is false; deleted = not path.exists()
\* asks again, then break
PollGone ==
    /\ pc_del = "loop"
    /\ loop_continues(waited, max_wait)
    /\ \E again \in BOOLEAN :
          /\ checks' = checks \o <<FALSE, again>>
          /\ deleted' = ~again
    /\ pc_del' = "return"
    /\ UNCHANGED <<missing_ok, max_wait, warn_on_fail, return_waited, present, waited,
                   del_result>>
    /\ UNCHANGED notDelVars

\* The else clause of the while loop: the condition became false
TimedOut ==
    /\ pc_del = "loop"
    /\ ~loop_continues(waited, max_wait)
    /\ IF warn_on_fail
       THEN pc_del' = "return" /\ del_result' = del_result
       ELSE pc_del' = "raised" /\ del_result' = Raised("Exception")
    /\ UNCHANGED <<missing_ok, max_wait, warn_on_fail, return_waited, present, checks,
                   waited, deleted>>
    /\ UNCHANGED notDelVars

\* return (deleted, waited) or return deleted
ReturnDeleted ==
    /\ pc_del = "return"
    /\ del_result' = Returned(IF return_waited THEN <<deleted, waited>> ELSE deleted)
    /\ pc_del' = "returned"
    /\ UNCHANGED <<missing_ok, max_wait, warn_on_fail, return_waited, present, checks,
                   waited, deleted>>
    /\ UNCHANGED notDelVars

NextDelete ==
    \/ Unlink
    \/ PollExists
    \/ PollGone
    \/ TimedOut
    \/ ReturnDeleted

-----------------------------------------------------------------------------
(* Properties of definitely_delete_file (checked under SpecDelete)          *)

\* The deleted flag of a returned call
DeletedFlag ==
    IF return_waited THEN del_result.value[1] ELSE del_result.value

\* Polls that found the file and slept one second
Polls == Cardinality({k \in 1..Len(checks) : checks[k]})

\* path.unlink raised and the file was never polled
UnlinkRaised ==
    del_result \in {Raised("FileNotFoundError"), Raised("PermissionError")}

\* C24: the call ends after at most max_wait one-second polls; it returns
\* True only after observing that the file does not exist; when the file
\* still exists after max_wait polls it raises if warn_on_fail is False and
\* returns False if warn_on_fail is True; deleting a missing file with
\* missing_ok = False raises.
C24_BoundedWait ==
    /\ <>(pc_del \in {"returned", "raised"})
    /\ [](/\ waited <= max_wait
          /\ pc_del # "return" /\ pc_del # "returned" => Polls = waited
          /\ Len(checks) <= max_wait + 2)
    /\ []((pc_del = "returned" /\ DeletedFlag = TRUE) =>
             /\ Len(checks) >= 2
             /\ ~checks[Len(checks)] /\ ~checks[Len(checks) - 1])
    /\ []((pc_del \in {"returned", "raised"} /\ ~UnlinkRaised
             /\ Len(checks) = max_wait /\ \A k \in 1..Len(checks) : checks[k]) =>
             IF warn_on_fail
             THEN pc_del = "returned" /\ DeletedFlag = FALSE
             ELSE del_result = Raised("Exception"))
    /\ []((pc_del # "unlink" /\ ~present /\ ~missing_ok) =>
             del_result = Raised("FileNotFoundError") /\ checks = <<>>)

\* The file is still there after each of three polls and the call, made with
\* warn_on_fail, returns False
C24_Witness ==
    /\ pc_del = "returned"
    /\ warn_on_fail /\ ~return_waited
    /\ max_wait = 3 /\ waited = 3
    /\ checks = <<TRUE, TRUE, TRUE>>
    /\ del_result = Returned(FALSE)

-----------------------------------------------------------------------------
(* Properties of direction codes (checked under SpecLoad)                   *)

\* C25: a direction code that does not match -?[1-3][1-3] is rejected with
\* an error when the loading tensors are constructed: its conversion yields
\* no tensor, and neither does the tensor list of a loading that holds it.
C25_InvalidCodeRejected ==
    /\ (pc_load = "converted" /\ ~MatchesPattern(converted.direction)) =>
          ~converted.res.ok /\ converted.res.val = <<>>
    /\ (pc_load = "prepared" /\ loading.kind = "displacement"
          /\ \E k \in 1..Len(loading.directions) : ~MatchesPattern(loading.directions[k])) =>
          ~prepared.ok /\ prepared.val = <<>>

-----------------------------------------------------------------------------
(* Properties of the face sort (checked under SpecPBC)                      *)

\* The cleaned coordinates and numbers one face hands to sort_2d_with_index
FaceInput(axis_ind, positive) ==
    LET nums == IF positive THEN SelectPos(mesh, axis_ind) ELSE SelectNeg(mesh, axis_ind)
    IN  [nodes |-> clean_node_coords(RoundedCoords(mesh, nums), axis_ind),
         nums |-> nums]

\* out holds the rows of the input, ordered by column primary, then column
\* secondary, rows with equal coordinates in their input order
SortedByKeys(out, nodes, nums, primary, secondary) ==
    LET pos(k) == CHOOSE i \in 1..Len(nums) : nums[i] = out[k][3]
    IN  /\ Len(out) = Len(nums)
        /\ {out[k][3] : k \in 1..Len(out)} = Range(nums)
        /\ \A k \in 1..Len(out) :
              out[k] = <<nodes[pos(k)][1], nodes[pos(k)][2], nums[pos(k)]>>
        /\ \A k \in 1..Len(out) : \A m \in (k + 1)..Len(out) :
              \/ out[k][primary] < out[m][primary]
              \/ /\ out[k][primary] = out[m][primary]
                 /\ out[k][secondary] < out[m][secondary]
              \/ /\ out[k][primary] = out[m][primary]
                 /\ out[k][secondary] = out[m][secondary]
                 /\ pos(k) < pos(m)

FacesSortedByKeys(primary, secondary) ==
    \A a \in 0..2 : \A positive \in BOOLEAN :
        LET in == FaceInput(a, positive)
        IN  SortedByKeys(sort_2d_with_index(in.nodes, in.nums), in.nodes, in.nums,
                         primary, secondary)

\* The pairs find_node_pairs returned are the rows of the two sorted faces
PairsFollowSort ==
    pair_sets.ok =>
        \A a \in 0..2 :
            LET pos == FaceInput(a, TRUE)
                neg == FaceInput(a, FALSE)
            IN  pair_sets.val[a + 1] =
                    StackPairs(sort_2d_with_index(pos.nodes, pos.nums),
                               sort_2d_with_index(neg.nodes, neg.nums))

\* C26 as stated: sort_2d_with_index orders the face nodes lexicographically
\* with the first remaining coordinate as primary key and the second as
\* secondary key, stably for ties.
C26_FirstCoordinatePrimary ==
    pc_pbc # "start" => FacesSortedByKeys(1, 2) /\ PairsFollowSort

\* C26, amended: sort_2d_with_index orders the face nodes lexicographically
\* with the second remaining coordinate as primary key and the first as
\* secondary key, stably for ties.
C26_SecondCoordinatePrimary ==
    pc_pbc # "start" => FacesSortedByKeys(2, 1) /\ PairsFollowSort

\* The +X face holds the four corners, whose two key orders differ, and two
\* mid-face nodes whose cleaned coordinates are equal; the pairs keep the
\* mid-face nodes in input order
C26_Witness ==
    /\ pc_pbc = "paired"
    /\ {9, 11} \subseteq DOMAIN mesh
    /\ LET in == FaceInput(0, TRUE)
           out == sort_2d_with_index(in.nodes, in.nums)
       IN  /\ Len(out) = 6
           /\ \E k \in 1..5 : out[k][3] = 9 /\ out[k + 1][3] = 11
                                /\ out[k][1] = out[k + 1][1] /\ out[k][2] = out[k + 1][2]
           /\ \E k \in 1..5 : out[k][1] > out[k + 1][1]

-----------------------------------------------------------------------------
(* Properties of the emitted constraint equations (checked under SpecPBC)   *)

\* The pairs of axis k (0-based) that do not contain retained node N0, in
\* the order find_node_pairs returned them
ConstrainedPairs(k) ==
    SelectSeq(pair_sets.val[k + 1],
              LAMBDA pair : retained_nodes[1] # pair[1] /\ retained_nodes[1] # pair[2])

\* Number of equations emitted for the axes before axis k
EquationsBefore(k) ==
    IF k = 0 THEN 0
    ELSE IF k = 1 THEN 3 * Len(ConstrainedPairs(0))
    ELSE 3 * (Len(ConstrainedPairs(0)) + Len(ConstrainedPairs(1)))

\* u(p) - u(n) - u(N_{k+1}) + u(N0) = 0 on one degree of freedom
PeriodicEquation(eq, dof, pair, k) ==
    /\ eq.lab = dof
    /\ Len(eq.terms) = 4
    /\ eq.terms[1] = <<pair[1], 1>>
    /\ eq.terms[2] = <<pair[2], -1>>
    /\ eq.terms[3] = <<retained_nodes[k + 2], -1>>
    /\ eq.terms[4] = <<retained_nodes[1], 1>>

\* C27: apply_periodic_conditions emits, for each axis k in order X, Y, Z and
\* each node pair (p, n) of that axis that does not contain retained node N0,
\* exactly three constraint equations, one per degree of freedom UX, UY, UZ,
\* each u(p) - u(n) - u(N_{k+1}) + u(N0) = 0 on that one degree of freedom;
\* a pair that contains N0 produces no constraint equation.
C27_ThreeEquationsPerPair ==
    pc_pbc = "applied" =>
        /\ Len(ce_log) = EquationsBefore(2) + 3 * Len(ConstrainedPairs(2))
        /\ \A k \in 0..2 : \A q \in 1..Len(ConstrainedPairs(k)) : \A d \in 1..3 :
              PeriodicEquation(ce_log[EquationsBefore(k) + 3 * (q - 1) + d],
                               DISP_AXES[d], ConstrainedPairs(k)[q], k)
        /\ \A j \in 1..Len(ce_log) : \A t \in 1..3 :
              \A k \in 0..2 : \A q \in 1..Len(pair_sets.val[k + 1]) :
                  LET pair == pair_sets.val[k + 1][q]
                  IN  retained_nodes[1] \in {pair[1], pair[2]} =>
                          ~(ce_log[j].terms[1][1] = pair[1]
                            /\ ce_log[j].terms[2][1] = pair[2])

\* Six pairs on the X faces and four on the others, one pair of each axis
\* holding N0: eleven pairs are constrained
C27_Witness ==
    /\ pc_pbc = "applied"
    /\ Len(pair_sets.val[1]) = 6
    /\ \A k \in 0..2 : Len(ConstrainedPairs(k)) = Len(pair_sets.val[k + 1]) - 1
    /\ Len(ce_log) = 33

-----------------------------------------------------------------------------
(* One load case from the load tensor to the recovered gradient: the       *)
(* tensor is converted from a direction code or given, applied to the      *)
(* retained nodes, the solver returns the imposed displacements, and the   *)
(* macro tensors and properties are calculated from them.                  *)

\* Given tensors without a null entry: one with zeros and unequal
\* off-diagonal entries, one with every entry nonzero
FullTensors ==
    { <<<<Q(1, 100), Q(2, 100), Zero>>, <<Q(3, 100), Zero, Q(-5, 100)>>,
        <<Q(7, 100), Zero, Q(1, 50)>>>>,
      <<<<Q(1, 10), Q(-1, 20), Q(1, 30)>>, <<Q(1, 40), Q(1, 50), Q(1, 60)>>,
        <<Q(-1, 70), Q(1, 80), Q(1, 90)>>>> }

GivenTensor(t) ==
    [kind |-> "tensor", attrs |-> {"kind", "tensors", "magnitudeMultiplier"},
     directions |-> <<>>, normalMagnitude |-> Zero, shearMagnitude |-> Zero,
     tensors |-> <<t>>, magnitudeMultiplier |-> R(1)]

\* Position of retained node N0
Origins == {Vec(0, 0, 0, 1), Vec(1, 1, 1, 1)}

\* Reaction forces of the retained nodes
ForceSets == {sol[2] : sol \in Solutions}

\* Displacement of a degree of freedom the load case leaves free
FreeDisplacement == Q(7, 100)

\* Retained nodes on the axes through N0 at the edge lengths
AxisAlignedCoords(origin, lens) ==
    [k \in 1..4 |->
        [a \in 1..3 |-> IF k = a + 1 THEN FAdd(origin[a], lens[a]) ELSE origin[a]]]

\* Displacement of a retained node in a solution that obeys the constraints
ImposedDisp(bc, node) ==
    [a \in 1..3 |->
        IF bc[<<node, DISP_AXES[a]>>] = Null THEN FreeDisplacement
        ELSE bc[<<node, DISP_AXES[a]>>]]

InitStrain ==
    /\ \E su \in Setups :
          /\ lengths = su[3]
          /\ \/ \E d \in DirectionCodes : loading = DirectionSpec(<<d>>, su[1], su[2])
             \/ \E t \in FullTensors : loading = GivenTensor(t)
    /\ retained_nodes \in RetainedNodeSets
    /\ prepared = NoResult
    /\ lh = NoResult
    /\ ansys_log = <<>>
    /\ applied = NoTensor
    /\ disp_bc = NoConstraints(retained_nodes)
    /\ converted = [direction |-> <<>>, res |-> NoResult]
    /\ pc_load = "given"
    /\ n_cases = 1
    /\ volume = R(40)
    /\ expectedProperties = <<<<AllToken>>>>
    /\ labels = None
    /\ load_case = 1
    /\ retained_results = <<>>
    /\ results = <<>>
    /\ debug_results = <<>>
    /\ reportedProperties = NoReport
    /\ pc_res = "await"

\* convert_direction_to_strain_tensor(direction, normal_mag, shear_mag, lengths)
ConvertGivenDirection ==
    /\ pc_load = "given"
    /\ loading.kind = "displacement"
    /\ converted' = [direction |-> loading.directions[1],
                     res |-> convert_direction_to_strain_tensor(
                                 loading.directions[1], loading.normalMagnitude,
                                 loading.shearMagnitude, lengths)]
    /\ pc_load' = "converted"
    /\ UNCHANGED <<loading, lengths, prepared, lh, ansys_log, applied, disp_bc,
                   retained_nodes>>
    /\ UNCHANGED notLoadVars

\* apply_strain_tensor(tensor)
ApplyGivenTensor ==
    /\ \/ pc_load = "given" /\ loading.kind = "tensor"
       \/ pc_load = "converted" /\ converted.res.ok
    /\ applied' = IF loading.kind = "tensor" THEN loading.tensors[1]
                  ELSE converted.res.val
    /\ ansys_log' = apply_strain_tensor(applied', retained_nodes, lengths)
    /\ disp_bc' = ExecCmds(disp_bc, ansys_log')
    /\ pc_load' = "applied"
    /\ UNCHANGED <<loading, lengths, prepared, lh, converted, retained_nodes>>
    /\ UNCHANGED notLoadVars

\* solve and extract_raw_results: the solver returns the imposed
\* displacements at axis-aligned retained nodes
SolveImposed ==
    /\ pc_load = "applied"
    /\ pc_res = "await"
    /\ \E origin \in Origins, forces \in ForceSets :
          retained_results' =
              [k \in 1..4 |->
                  [coord |-> AxisAlignedCoords(origin, lengths)[k],
                   disp |-> ImposedDisp(disp_bc, retained_nodes[k]),
                   force |-> forces[k]]]
    /\ pc_res' = "solved"
    /\ UNCHANGED <<n_cases, volume, expectedProperties, labels, load_case, results,
                   debug_results, reportedProperties>>
    /\ UNCHANGED notResVars

\* calculate_properties(load_case)
CalculateImposed ==
    /\ pc_res = "solved"
    /\ LET tensors == calculate_macro_tensors(retained_results, volume)
       IN  /\ debug_results' = Append(debug_results, tensors)
           /\ results' = dict_store(results, load_case, calculate_properties(tensors))
    /\ pc_res' = "calculated"
    /\ UNCHANGED <<n_cases, volume, expectedProperties, labels, load_case,
                   retained_results, reportedProperties>>
    /\ UNCHANGED notResVars

NextStrain ==
    \/ ConvertGivenDirection
    \/ ApplyGivenTensor
    \/ SolveImposed
    \/ CalculateImposed

-----------------------------------------------------------------------------
(* Properties of the imposed strain (checked under SpecStrain)             *)

NoNullEntry(t) == \A a \in 1..3 : \A b \in 1..3 : t[a][b] # Null

\* The applied tensor came from a shear direction code of the pattern
ShearCase ==
    /\ loading.kind = "displacement"
    /\ MatchesPattern(converted.direction)
    /\ LastTwo(converted.direction)[1] # LastTwo(converted.direction)[2]

\* C28: for a load tensor T with no null entry, axis-aligned retained nodes at
\* edge lengths L and solved displacements equal to those apply_strain_tensor(T)
\* imposed, calculate_displacement_gradient returns the transpose of T; for a
\* shear code d1d2 the only nonzero gradient entry is [d2-1][d1-1], it is the
\* denominator of the shear modulus stored for label G{d1}{d2}, and the
\* displacement imposed on retained node d1 is sign * shearMagnitude.
C28_GradientIsTranspose ==
    (pc_res = "calculated" /\ NoNullEntry(applied)) =>
        LET grad == debug_results[1].displacement_gradient
            stress == debug_results[1].macro_stress
        IN  /\ grad = transpose(applied)
            /\ ShearCase =>
                  LET d1 == LastTwo(converted.direction)[1]
                      d2 == LastTwo(converted.direction)[2]
                      i == CharInt(d1) - 1
                      j == CharInt(d2) - 1
                      sign == IF Len(converted.direction) = 3 THEN -1 ELSE 1
                      imposed == FMul(R(sign), loading.shearMagnitude)
                  IN  /\ At(grad, j, i) # Zero
                      /\ \A a \in 0..2 : \A b \in 0..2 :
                            At(grad, a, b) # Zero => (a = j /\ b = i)
                      /\ LookupProperty(results[1], Label("G", d1, d2))
                            = Ok(FDiv(At(stress, j, i), At(grad, j, i)))
                      /\ disp_bc[<<retained_nodes[i + 2], DISP_AXES[j + 1]>>] = imposed
                      /\ \E n \in 1..Len(ansys_log) :
                            ansys_log[n] = Cmd("d", retained_nodes[i + 2],
                                               DISP_AXES[j + 1], imposed)
                      /\ retained_results[i + 2].disp[j + 1] = imposed

\* Direction -12 at edge lengths (2, 4, 5) with N0 off the origin: the
\* gradient holds -shearMagnitude / L[0] at [1][0] and the stress there is
\* not zero
C28_Witness ==
    /\ pc_res = "calculated"
    /\ converted.direction = <<"-", "1", "2">>
    /\ lengths = <<R(2), R(4), R(5)>>
    /\ retained_results[1].coord = Vec(1, 1, 1, 1)
    /\ At(debug_results[1].displacement_gradient, 1, 0) = Q(-1, 4)
    /\ At(debug_results[1].macro_stress, 1, 0) # Zero
    /\ IsFinite(results[1].shearModuli[1])

-----------------------------------------------------------------------------
(* Label-sets fewer or more than the load cases (checked under SpecReport)  *)

\* The property rows of a returned table
PropertyRowsOf(frame) == Range(frame.index) \ {LabelRow}

\* Column c holds, under the given labels, load case c's values and nothing
\* under any other label
ColumnFilledFrom(frame, c, props) ==
    \A row \in PropertyRowsOf(frame) :
        frame.cells[<<row, c>>] =
            IF row \in props THEN LookupProperty(call_args.results[c], row).val
            ELSE NaN

ColumnEmpty(frame, c) ==
    \A row \in PropertyRowsOf(frame) : frame.cells[<<row, c>>] = NaN

\* C29: label-sets are paired with load cases by position; with m label-sets,
\* 1 < m < num_load_cases, no error is raised, the first m load-case columns
\* are filled and every remaining load-case column holds no property value;
\* with m > num_load_cases the surplus label-sets fill no cell although their
\* labels still appear as rows.
C29_PairedByPosition ==
    LET sets == call_args.expected_property_sets
        m == Len(sets)
        num == call_args.num_load_cases
    IN  (pc_rep = "returned" /\ num = Len(call_args.results) /\ m > 1) =>
            /\ call_result.ok
            /\ \A c \in 1..num :
                  IF c <= m THEN ColumnFilledFrom(call_result.val, c, Expanded(sets[c]))
                  ELSE ColumnEmpty(call_result.val, c)
            /\ \A k \in 1..m : Expanded(sets[k]) \subseteq PropertyRowsOf(call_result.val)
            /\ Range(call_result.val.columns) = 1..num

\* Two label-sets for three load cases: columns 1 and 2 hold values, column 3
\* none
C29_Witness ==
    /\ pc_rep = "returned"
    /\ call_args.num_load_cases = 3
    /\ Len(call_args.results) = 3
    /\ call_args.expected_property_sets = <<CaseProperties(1), CaseProperties(2)>>
    /\ call_args.labels # None
    /\ call_result.ok
    /\ IsFinite(call_result.val.cells[<<Label("E","1","1"), 1>>])
    /\ IsFinite(call_result.val.cells[<<Label("G","1","2"), 2>>])
    /\ ColumnEmpty(call_result.val, 3)
    /\ call_result.val.cells[<<LabelRow, 3>>] = CaseLabel(3)

\* Two label-sets for one load case: the labels of the second set are rows
\* of the table and every cell of those rows is empty
C29_SurplusWitness ==
    /\ pc_rep = "returned"
    /\ call_args.num_load_cases = 1
    /\ Len(call_args.results) = 1
    /\ call_args.expected_property_sets = <<CaseProperties(1), CaseProperties(2)>>
    /\ call_result.ok
    /\ Label("G","3","2") \in PropertyRowsOf(call_result.val)
    /\ call_result.val.cells[<<Label("G","3","2"), 1>>] = NaN

-----------------------------------------------------------------------------
(* The results file across run_test_sequence: clear_results deletes it     *)
(* with definitely_delete_file, each solve writes one result set into the  *)
(* file at rst_path, extract_raw_results reads displacements from the last *)
(* set and reaction forces from set 0.                                     *)

MaxFileCases == 2

\* max_wait: int = 5
DELETE_WAIT_DEFAULT == 5

RstIdle(log) ==
    /\ rst_exists = FALSE
    /\ rst_sets = log
    /\ rst_cases = 0
    /\ rst_case = 0
    /\ extractions = <<>>
    /\ pc_rst = "idle"

InitRst ==
    /\ rst_exists \in BOOLEAN
    \* a file left by an earlier run holds one set, owned by load case 0
    /\ rst_sets = IF rst_exists THEN <<0>> ELSE <<>>
    /\ rst_cases \in 1..MaxFileCases
    /\ rst_case = 1
    /\ extractions = <<>>
    /\ pc_rst = "clear"

\* self.results_handler.clear_results(): ansys.finish() and the call
\* utils.definitely_delete_file(rst_path, missing_ok=True)
ClearResults ==
    /\ pc_rst = "clear"
    /\ missing_ok' = TRUE
    /\ max_wait' = DELETE_WAIT_DEFAULT
    /\ warn_on_fail' = FALSE
    /\ return_waited' = FALSE
    /\ present' = rst_exists
    /\ checks' = <<>>
    /\ waited' = 0
    /\ deleted' = FALSE
    /\ del_result' = NotReturned
    /\ pc_del' = "unlink"
    /\ pc_rst' = "deleting"
    /\ UNCHANGED <<rst_exists, rst_sets, rst_cases, rst_case, extractions>>
    /\ UNCHANGED <<loadVars, pbcVars, resVars, repVars, caseVars, runVars, facVars,
                   sesVars>>

\* run_test_sequence does not look at what clear_results returned
clear_results_discarded(ret) == "load"

\* definitely_delete_file returned: the file is gone when its last
\* path.exists() said so, and still there when it did not
ClearReturned ==
    /\ pc_rst = "deleting"
    /\ pc_del = "returned"
    /\ rst_exists' = ~del_result.value
    /\ rst_sets' = IF del_result.value THEN <<>> ELSE rst_sets
    /\ pc_rst' = clear_results_discarded(del_result.value)
    /\ UNCHANGED <<rst_cases, rst_case, extractions>>
    /\ UNCHANGED notRstVars

\* definitely_delete_file raised: the exception leaves run_test_sequence
ClearRaised ==
    /\ pc_rst = "deleting"
    /\ pc_del = "raised"
    /\ pc_rst' = "raised"
    /\ UNCHANGED <<rst_exists, rst_sets, rst_cases, rst_case, extractions>>
    /\ UNCHANGED notRstVars

\* apply_strain_tensor and solve(): the solution is written as one more
\* result set of the file at rst_path
SolveIntoFile ==
    /\ pc_rst = "load"
    /\ rst_exists' = TRUE
    /\ rst_sets' = Append(rst_sets, rst_case)
    /\ pc_rst' = "extract"
    /\ UNCHANGED <<rst_cases, rst_case, extractions>>
    /\ UNCHANGED notRstVars

\* extract_raw_results: result.nodal_displacement(result.nsets - 1) and, per
\* retained node, ansys.result.nodal_reaction_forces(0); calculate_properties
ExtractFromFile ==
    /\ pc_rst = "extract"
    /\ rst_exists
    /\ extractions' = Append(extractions,
                             [load_case |-> rst_case,
                              cleared |-> del_result.value,
                              nsets |-> Len(rst_sets),
                              disp |-> rst_sets[(Len(rst_sets) - 1) + 1],
                              force |-> rst_sets[0 + 1]])
    /\ rst_case' = rst_case + 1
    /\ pc_rst' = IF rst_case < rst_cases THEN "clear" ELSE "compile"
    /\ UNCHANGED <<rst_exists, rst_sets, rst_cases>>
    /\ UNCHANGED notRstVars

\* return ResultsHandler.compile_results(...)
CompileFromFile ==
    /\ pc_rst = "compile"
    /\ pc_rst' = "done"
    /\ UNCHANGED <<rst_exists, rst_sets, rst_cases, rst_case, extractions>>
    /\ UNCHANGED notRstVars

NextRst ==
    \/ ClearResults
    \/ Unlink
    \/ PollExists
    \/ PollGone
    \/ TimedOut
    \/ ReturnDeleted
    \/ ClearReturned
    \/ ClearRaised
    \/ SolveIntoFile
    \/ ExtractFromFile
    \/ CompileFromFile

-----------------------------------------------------------------------------
(* Properties of the results file (checked under SpecRst)                  *)

\* C30: at every extraction of raw results the results file holds exactly
\* one result set, that of the current load case, so the displacements (last
\* set) and the reaction forces (set 0) of one load case come from the same
\* solve and never from an earlier load case.
C30_OneResultSet ==
    \A k \in 1..Len(extractions) :
        /\ extractions[k].nsets = 1
        /\ extractions[k].disp = extractions[k].load_case
        /\ extractions[k].force = extractions[k].load_case

\* What does hold: after a clear_results that returned True the file holds
\* the current load case's set alone, and the displacements are always the
\* current load case's
ExtractionAfterConfirmedDeletion ==
    \A k \in 1..Len(extractions) :
        /\ extractions[k].disp = extractions[k].load_case
        /\ extractions[k].cleared =>
              /\ extractions[k].nsets = 1
              /\ extractions[k].force = extractions[k].load_case

-----------------------------------------------------------------------------
(* Specifications: each component runs with the others idle                *)

InitLoadSpec ==
    InitLoad /\ PbcIdle(CornerMesh) /\ ResIdle(Zero) /\ RepIdle(NoCall)
        /\ CaseIdle(<<>>) /\ RunIdle(<<>>)
        /\ FacIdle(<<>>)
        /\ SesIdle(<<>>)
        /\ DelIdle(<<>>)
        /\ RstIdle(<<>>)

SpecLoad == InitLoadSpec /\ [][NextLoad]_vars

InitPBCSpec ==
    InitPBC /\ LoadIdle(CornerRetained) /\ ResIdle(Zero) /\ RepIdle(NoCall)
        /\ CaseIdle(<<>>) /\ RunIdle(<<>>)
        /\ FacIdle(<<>>)
        /\ SesIdle(<<>>)
        /\ DelIdle(<<>>)
        /\ RstIdle(<<>>)

InitStrainSpec ==
    InitStrain /\ PbcIdle(CornerMesh) /\ RepIdle(NoCall)
        /\ CaseIdle(<<>>) /\ RunIdle(<<>>)
        /\ FacIdle(<<>>)
        /\ SesIdle(<<>>)
        /\ DelIdle(<<>>)
        /\ RstIdle(<<>>)

SpecStrain == InitStrainSpec /\ [][NextStrain]_vars

InitRstSpec ==
    InitRst /\ LoadIdle(CornerRetained) /\ PbcIdle(CornerMesh) /\ ResIdle(Zero)
        /\ RepIdle(NoCall) /\ CaseIdle(<<>>) /\ RunIdle(<<>>)
        /\ FacIdle(<<>>)
        /\ SesIdle(<<>>)
        /\ DelIdle(<<>>)

SpecRst == InitRstSpec /\ [][NextRst]_vars /\ WF_vars(NextRst)

SpecPBC == InitPBCSpec /\ [][NextPBC]_vars

InitResSpec ==
    InitRes /\ LoadIdle(CornerRetained) /\ PbcIdle(CornerMesh) /\ RepIdle(NoCall)
        /\ CaseIdle(<<>>) /\ RunIdle(<<>>)
        /\ FacIdle(<<>>)
        /\ SesIdle(<<>>)
        /\ DelIdle(<<>>)
        /\ RstIdle(<<>>)

SpecRes == InitResSpec /\ [][NextRes]_vars

InitReportSpec ==
    InitReport /\ LoadIdle(CornerRetained) /\ PbcIdle(CornerMesh) /\ ResIdle(Zero)
        /\ CaseIdle(<<>>) /\ RunIdle(<<>>)
        /\ FacIdle(<<>>)
        /\ SesIdle(<<>>)
        /\ DelIdle(<<>>)
        /\ RstIdle(<<>>)

SpecReport == InitReportSpec /\ [][NextReport]_vars

InitCaseSpec ==
    InitCase /\ LoadIdle(CornerRetained) /\ PbcIdle(CornerMesh) /\ RepIdle(NoCall)
        /\ RunIdle(<<>>)
        /\ FacIdle(<<>>)
        /\ SesIdle(<<>>)
        /\ DelIdle(<<>>)
        /\ RstIdle(<<>>)

SpecCase == InitCaseSpec /\ [][NextCase]_vars

InitRunSpec == InitRun /\ PbcIdle(CornerMesh) /\ RepIdle(NoCall) /\ CaseIdle(<<>>)
        /\ FacIdle(<<>>)
        /\ SesIdle(<<>>)
        /\ DelIdle(<<>>)
        /\ RstIdle(<<>>)

SpecRun == InitRunSpec /\ [][NextRun]_vars

InitFactorySpec ==
    InitFactory /\ LoadIdle(CornerRetained) /\ PbcIdle(CornerMesh) /\ ResIdle(Zero)
        /\ RepIdle(NoCall) /\ CaseIdle(<<>>) /\ RunIdle(<<>>)
        /\ SesIdle(<<>>)
        /\ DelIdle(<<>>)
        /\ RstIdle(<<>>)

SpecFactory == InitFactorySpec /\ [][NextFactory]_vars

InitSessionSpec ==
    InitSession /\ LoadIdle(CornerRetained) /\ PbcIdle(CornerMesh) /\ ResIdle(Zero)
        /\ RepIdle(NoCall) /\ CaseIdle(<<>>) /\ RunIdle(<<>>) /\ FacIdle(<<>>)
        /\ DelIdle(<<>>)
        /\ RstIdle(<<>>)

SpecSession == InitSessionSpec /\ [][NextSession]_vars

InitDeleteSpec ==
    InitDelete /\ LoadIdle(CornerRetained) /\ PbcIdle(CornerMesh) /\ ResIdle(Zero)
        /\ RepIdle(NoCall) /\ CaseIdle(<<>>) /\ RunIdle(<<>>) /\ FacIdle(<<>>)
        /\ SesIdle(<<>>)
        /\ RstIdle(<<>>)

\* The call runs in one thread that always takes its next step
SpecDelete == InitDeleteSpec /\ [][NextDelete]_vars /\ WF_vars(NextDelete)

====
